---- MODULE Spec2Model ----
(***************************************************************************)
(* State-machine model of the SearchLightAI server: the video routes       *)
(* (add_video, upload_video, delete_video), the background pipeline        *)
(* process_video_task, the search route search_videos, the Video /         *)
(* Transcript tables of the record store, the two vector collections, the  *)
(* artifacts on disk and the score calibration rescale_siglip_score.       *)
(*                                                                         *)
(* Granularity: one action per stretch of code between two suspension      *)
(* points (await) of a coroutine, split further where an external call     *)
(* with a lasting effect (files, vector points) can raise or the process   *)
(* can die between two such calls.  Where the stretch before an await has  *)
(* an effect of its own, or the stretch after it acts on what the record   *)
(* store answered, the record store serving the awaited statement is an    *)
(* action of its own (AwaitCommit, UploadCommit, Refresh, DeleteCommit,    *)
(* SearchSelect).                                                          *)
(*                                                                         *)
(* Specifications: Spec (one video; failures, delete_video, a crash),      *)
(* ConcurrentSpec (two runs interleaved), PipelineSpec (one run with more  *)
(* keyframes and segments), LiveSpec (one run under fair scheduling),      *)
(* DeleteSpec (delete_video on indexed videos), SearchSpec (search_videos  *)
(* on indexed videos), VisibleSpec (search_videos while two runs embed),    *)
(* StoreSpec (the store functions called directly), ThumbnailSpec         *)
(* (extract_thumbnail beside one run), RescaleSpec (rescale_siglip_score). *)
(***************************************************************************)
EXTENDS Integers, Sequences, FiniteSets, TLC

\* ------------------------------------------------------------------ bounds
MaxKeyframes == 1   \* keyframes extract_keyframes may return
MaxSegments == 1    \* segments transcribe may return
MaxFaults == 2      \* failures of external calls / of the record store
MaxDeletes == 1     \* delete_video requests
MaxCrashes == 1     \* process crashes
MaxItems == 2       \* items handed to store_*_embeddings called on its own,
                    \* keyframes / segments of the single-run specification
MaxLimit == 2       \* SearchQuery.limit
MaxPoints == 4      \* points in the index when a search starts

\* The ids a Video row can get (uuid4 values, here the number of the request
\* that creates the row).
VideoIds == {1, 2}

\* ------------------------------------------------------- VideoStatus enum
PENDING == "pending"
EXTRACTING_FRAMES == "extracting_frames"
EXTRACTING_AUDIO == "extracting_audio"
TRANSCRIBING == "transcribing"
EMBEDDING == "embedding"
COMPLETED == "completed"
FAILED == "failed"

NULL == "null"      \* Python None / SQL NULL
NOW == "now"        \* a utc_now() timestamp

\* Collection names
VISUAL_COLLECTION == "visual_embeddings"
SPEECH_COLLECTION == "speech_embeddings"

\* ------------------------------------------------------------- exceptions
\* An exception is a record [type, msg]; str(e) is its message.
Exc(type, msg) == [type |-> type, msg |-> msg]
NoExc == Exc("none", "")
Str(e) == e.msg

ExternalCalls ==
  {"extract_keyframes", "extract_audio", "transcribe", "embed_images_batch",
   "store_visual_embeddings", "embed_texts_batch", "store_speech_embeddings"}

ToolError(fn) == Exc("RuntimeError", fn)
CommitError == Exc("OperationalError", "commit")
StaleDataError == Exc("StaleDataError", "UPDATE expected to update 1 row(s); 0 were matched")
IntegrityError == Exc("IntegrityError", "transcripts.video_id")
UnboundLocalError == Exc("UnboundLocalError", "video")
PendingRollbackError ==
  Exc("PendingRollbackError", "This Session's transaction has been rolled back")
\* raise HTTPException(status_code=.., detail=detail)
HTTPException(detail) == Exc("HTTPException", detail)


\* --------------------------------------------------------- Video (ORM row)
\* A row of table videos. updated_at / created_at are left out: no claim
\* reads them and every mark_* call makes the object dirty anyway.
NewVideo(filename, path) ==
  [filename |-> filename, original_path |-> path, status |-> PENDING,
   error_message |-> NULL, processed_at |-> NULL,
   keyframe_count |-> 0, frame_count |-> 0]

\* No row with that primary key.
NoRow ==
  [filename |-> NULL, original_path |-> NULL, status |-> "norow",
   error_message |-> NULL, processed_at |-> NULL,
   keyframe_count |-> 0, frame_count |-> 0]

\* The attributes of the task's Video object modified since the last flush,
\* with their new values: a function from attribute names.
Clean == [a \in {} |-> NULL]

Dirty(p) == DOMAIN p # {}

SetAttr(p, a, x) == [b \in DOMAIN p \cup {a} |-> IF b = a THEN x ELSE p[b]]

\* Mutants of mark_processing: one that always writes PENDING, one that
\* touches only updated_at.
mark_processing_pending(p, status) == SetAttr(p, "status", PENDING)

mark_processing_noop(p, status) == p

mark_processing(p, status) == SetAttr(p, "status", status)

\* Mutant of mark_completed: processed_at is left unset.
mark_completed_status_only(p) == SetAttr(p, "status", COMPLETED)

mark_completed(p) ==
  SetAttr(SetAttr(p, "status", COMPLETED), "processed_at", NOW)

mark_failed(p, error) ==
  SetAttr(SetAttr(p, "status", FAILED), "error_message", error)

\* video.keyframe_count = ..; video.frame_count = ..  An attribute set to the
\* value it already has (0, the column default) is not dirty.
SetCounts(p, k, fc) ==
  LET p1 == IF k = 0 THEN p ELSE SetAttr(p, "keyframe_count", k)
  IN IF fc = 0 THEN p1 ELSE SetAttr(p1, "frame_count", fc)

\* UPDATE videos SET <dirty attributes> WHERE id = ..
Flush(row, p) ==
  [a \in DOMAIN row |-> IF a \in DOMAIN p THEN p[a] ELSE row[a]]

\* Mutant of CommitOutcomes: a failing commit keeps the rows inserted before
\* the failure.
CommitOutcomesPartial(row, p, ins, canFault) ==
  IF row = NoRow /\ (Dirty(p) \/ ins > 0)
  THEN {[exc |-> IF Dirty(p) THEN StaleDataError ELSE IntegrityError,
         row |-> row, inserted |-> 0]}
  ELSE {[exc |-> NoExc,
         row |-> IF row = NoRow THEN NoRow ELSE Flush(row, p),
         inserted |-> ins]}
       \cup (IF canFault
             THEN {[exc |-> CommitError, row |-> row,
                    inserted |-> IF ins > 0 THEN ins - 1 ELSE 0]}
             ELSE {})

\* session.commit() of a pipeline session holding the dirty attributes p of
\* its Video and ins new Transcript objects, against the committed row.
\* A flush that matches no row raises (StaleDataError for the UPDATE, a
\* foreign-key IntegrityError for the INSERTs); canFault allows a failure of
\* the record store itself.  A failed commit changes nothing.
CommitOutcomes(row, p, ins, canFault) ==
  IF row = NoRow /\ (Dirty(p) \/ ins > 0)
  THEN {[exc |-> IF Dirty(p) THEN StaleDataError ELSE IntegrityError,
         row |-> row, inserted |-> 0]}
  ELSE {[exc |-> NoExc,
         row |-> IF row = NoRow THEN NoRow ELSE Flush(row, p),
         inserted |-> ins]}
       \cup (IF canFault
             THEN {[exc |-> CommitError, row |-> row, inserted |-> 0]}
             ELSE {})

\* Session.rollback(), run by a failed commit: every object is expired, the
\* unflushed attribute changes are gone.
Rollback(p) == Clean

\* ------------------------------------------------------------ vector store
\* str(int), as the f-string formats index: the decimal digits.
str_int(i) == ToString(i)

\* str(UUID): 32 hexadecimal digits in five groups joined by hyphens, 36
\* characters whatever the id.  Video id n is the UUID whose last digit is n.
str_uuid(video_id) ==
  "00000000-0000-0000-0000-00000000000" \o ToString(video_id)

\* Mutant of generate_point_id: the video id is left out of the name.
generate_point_id_shared(video_id, index, prefix) ==
  <<"uuid5", "_" \o prefix \o "_" \o str_int(index)>>

\* Mutant of PointName: the prefix is left out of the name.
PointNameNoPrefix(video_id, index, prefix) ==
  str_uuid(video_id) \o "_" \o str_int(index)

\* name = f"{video_id}_{prefix}_{index}": the three parts formatted and
\* joined by underscores into one string.
PointName(video_id, index, prefix) ==
  str_uuid(video_id) \o "_" \o prefix \o "_" \o str_int(index)

\* str(uuid5(NAMESPACE_DNS, name)): the SHA-1 based UUID of the name, kept as
\* a tag around the name it hashes (two names have one id exactly when they
\* are the same string; a collision of the hash is outside the model).
generate_point_id(video_id, index, prefix) ==
  <<"uuid5", PointName(video_id, index, prefix)>>

Min(a, b) == IF a < b THEN a ELSE b

\* embed_images_batch: the frames that cannot be opened are skipped, the
\* result lists the vectors of the others in order.  frames is 1..k,
\* loadable the subset that opens; a vector is named by the frame it is
\* computed from.
RECURSIVE EmbedFrom(_, _, _)
EmbedFrom(i, k, loadable) ==
  IF i > k THEN <<>>
  ELSE (IF i \in loadable THEN <<i>> ELSE <<>>) \o EmbedFrom(i + 1, k, loadable)

embed_images_batch(k, loadable) == EmbedFrom(1, k, loadable)

\* embed_texts_batch: one vector per text.
embed_texts_batch(s) == [i \in 1..s |-> i]

\* The points store_*_embeddings builds: enumerate(zip(items, embeddings)),
\* index i from 0, item i+1 of the list with vector i+1.  The payload keeps
\* the item's time (timestamp of a keyframe, start_time of a segment): item
\* i of a video is at second i.
BuildPoints(video_id, n, embeddings, prefix) ==
  {[id |-> generate_point_id(video_id, i, prefix),
    video_id |-> video_id,
    index |-> i,
    timestamp |-> i,
    vector |-> embeddings[i + 1]] : i \in 0..(Min(n, Len(embeddings)) - 1)}

\* client.upsert: a point with an id already stored is overwritten.
Upsert(coll, points) ==
  {q \in coll : \A p \in points : p.id # q.id} \cup points

\* store_visual_embeddings(video_id, keyframes, embeddings), k = len(keyframes)
store_visual_embeddings(coll, video_id, k, embeddings) ==
  Upsert(coll, BuildPoints(video_id, k, embeddings, "visual"))

\* store_speech_embeddings(video_id, segments, embeddings), s = len(segments)
store_speech_embeddings(coll, video_id, s, embeddings) ==
  Upsert(coll, BuildPoints(video_id, s, embeddings, "speech"))

\* client.delete with the filter payload.video_id == video_id
DeleteWhere(coll, video_id) == {q \in coll : q.video_id # video_id}

PointsOf(coll, video_id) == {q \in coll : q.video_id = video_id}

\* ------------------------------------------------------------------- disk
UploadPath(filename) == <<"uploads", filename>>
ExternalPath(filename) == <<"ext", filename>>
FramesDir(video_id) == <<"frames", video_id>>
AudioPath(video_id) == <<"audio", video_id>>

Filenames == {"a.mp4"}
\* What a file holds decides the metadata probe: ffprobe exits with an error
\* on "corrupt", prints something get_video_info cannot parse on "malformed".
\* A file just opened for writing is "empty".
Contents == {"good", "corrupt", "malformed"}

WriteFile(fs, path, content) ==
  [q \in DOMAIN fs \cup {path} |-> IF q = path THEN content ELSE fs[q]]

Unlink(fs, path) == [q \in DOMAIN fs \ {path} |-> fs[q]]

\* Mutant of get_video_info: the probe accepts every file.
get_video_info_accepts(fs, path) == NoExc

\* get_video_info: "ok", or the exception it raises.
get_video_info(fs, path) ==
  CASE path \notin DOMAIN fs -> Exc("RuntimeError", "Failed to get video info")
    [] fs[path] = "good" -> NoExc
    [] fs[path] = "malformed" -> Exc("ValueError", "ffprobe output")
    [] OTHER -> Exc("RuntimeError", "Failed to get video info")

\* frames_dir / str(video_id) / "thumbnail.jpg".  files[FramesDir(v)] counts
\* the keyframe images of the directory; the thumbnail is a file of its own.
ThumbnailPath(video_id) == <<"thumbnail", video_id>>

\* VideoProcessorService.extract_thumbnail: the metadata probe, mkdir of the
\* frames directory of the video (exist_ok), ffmpeg writing thumbnail.jpg
\* over any earlier one.  Every exception is caught and None returned: a
\* failed probe leaves the disk as it was, a failed ffmpeg leaves the
\* directory.  value is the path returned; no route calls the method.
extract_thumbnail(fs, video_path, video_id, ffmpeg_ok) ==
  IF get_video_info(fs, video_path) # NoExc
  THEN [value |-> NULL, files |-> fs]
  ELSE LET made == IF FramesDir(video_id) \in DOMAIN fs THEN fs
                   ELSE WriteFile(fs, FramesDir(video_id), 0)
       IN IF ffmpeg_ok
          THEN [value |-> ThumbnailPath(video_id),
                files |-> WriteFile(made, ThumbnailPath(video_id), "jpg")]
          ELSE [value |-> NULL, files |-> made]


\* ------------------------------------------------------------------ state
VARIABLES
  videos,       \* table videos: id -> row, or NoRow
  transcripts,  \* table transcripts: video_id -> number of rows
  visual,       \* the points of VISUAL_COLLECTION
  speech,       \* the points of SPEECH_COLLECTION
  files,        \* the disk: path -> content
  ncalls,       \* add_video / upload_video requests handled so far
  call,         \* per request: its route and its response
  runs,         \* video id -> process_video_task runs scheduled (add_task)
  task,         \* video id -> the state of its process_video_task coroutine
  del,          \* request number -> the state of that delete_video request
  ndeletes,     \* delete_video requests handled so far
  faults,       \* failures injected so far
  crashes,      \* process crashes so far
  budget,       \* what the environment may do in this behaviour (fixed)
  search,       \* the state of a search_videos request
  calib         \* a call of rescale_siglip_score: its argument and result

vars ==
  <<videos, transcripts, visual, speech, files, ncalls, call, runs, task,
    del, ndeletes, faults, crashes, budget, search, calib>>

\* A request to add_video / upload_video: pc is where its coroutine waits
\* ("read" for the body of the upload, "commit" for the commit of the row
\* of an upload, "refresh" after the commit of the row, "refreshed" once
\* the refresh has read the row), "done" when it is
\* answered, "dead" when the process died under it;
\* path its file_path / upload_path (<<"none", "">> before it has one); its
\* answer: the HTTP status, the status field of the response body, and the
\* exception that left the route (NoExc when it returned).
NoCall ==
  [route |-> "none", pc |-> "none", path |-> <<"none", "">>, code |-> 0,
   status |-> NULL, exc |-> NoExc]

\* A coroutine of process_video_task: pc is the statement it is at ("return"
\* once its last commit is served and it waits to be resumed), pending
\* the unflushed changes of its Video object, bound whether the local name
\* `video` is assigned, keyframes / segments the lengths of the local lists
\* (0 before they are assigned), has_audio the local flag (FALSE before it
\* is assigned), probe what the ffprobe command of has_audio did ("none"
\* before it ran), embeddings the local visual_embeddings,
\* caught the exception the except clause caught and at the statement that
\* raised it, exc the exception that left the task, calls the provider calls
\* made so far, in order, dead whether the process died while the task was
\* at pc, awaiting whether the task has done the calls of the step at pc and
\* is suspended in the `await session.commit()` that ends it.
NoTask ==
  [pc |-> "none", dead |-> FALSE, awaiting |-> FALSE, pending |-> Clean,
   bound |-> FALSE,
   keyframes |-> 0, segments |-> 0, has_audio |-> FALSE, probe |-> "none",
   embeddings |-> <<>>, caught |-> NoExc, at |-> "none", exc |-> NoExc,
   calls |-> <<>>]

\* The delete_video requests are numbered in the order they arrive.
DeleteIds == 1..(MaxDeletes + 1)

\* A delete_video request: pc is "idle" before it arrives, "selected" while
\* it waits for its select of the Video, "commit" while it waits for its
\* record-store calls, "committed" once its commit is served and the route
\* waits to be resumed, "done" when it is answered, "dead" when the process
\* died under it; video the id it asks for, exc what its commit raised.
NoDelete ==
  [pc |-> "idle", video |-> 0, result |-> 0, found |-> NULL, exc |-> NoExc]

\* A search_videos request: pc is "idle" before it, "enrich" while its
\* select of the Video rows is with the record store, "rows" once the select
\* is served and the route waits to be resumed, "done" when it has ended;
\* query the SearchQuery, calls the query_points calls made, visual_results
\* / speech_results what they returned, results the local list after the
\* sort and the cut, rows what the select returned, response the
\* SearchResponse, code the HTTP status once it has ended.
NoResponse == [results |-> <<>>, total_results |-> 0]

NoSearch ==
  [pc |-> "idle", query |-> NULL, calls |-> <<>>, visual_results |-> <<>>,
   speech_results |-> <<>>, results |-> <<>>,
   rows |-> [v \in VideoIds |-> NoRow], response |-> NoResponse, code |-> 0]

NoCalib == [arg |-> 0, called |-> FALSE, result |-> NULL]

InitStores ==
  /\ videos = [v \in VideoIds |-> NoRow]
  /\ transcripts = [v \in VideoIds |-> 0]
  /\ visual = {}
  /\ speech = {}
  /\ files = [q \in {ExternalPath("a.mp4"), ExternalPath("bad.mp4"),
                      ExternalPath("odd.mp4")} |->
               CASE q = ExternalPath("a.mp4") -> "good"
                 [] q = ExternalPath("bad.mp4") -> "corrupt"
                 [] OTHER -> "malformed"]
  /\ ncalls = 0
  /\ call = [v \in VideoIds |-> NoCall]
  /\ runs = [v \in VideoIds |-> 0]
  /\ task = [v \in VideoIds |-> NoTask]
  /\ del = [d \in DeleteIds |-> NoDelete]
  /\ ndeletes = 0
  /\ faults = 0
  /\ crashes = 0
  /\ search = NoSearch
  /\ calib = NoCalib

\* One Video, of at most one keyframe and one segment, is registered and
\* processed while deletes, failures and a crash strike.
Init ==
  /\ InitStores
  /\ budget = [videos |-> 1, faults |-> MaxFaults, deletes |-> MaxDeletes,
               crashes |-> MaxCrashes, keyframes |-> 1, segments |-> 1]

CanFault == faults < budget.faults

\* ------------------------------------------------- add_video, upload_video
\* background_tasks.add_task(process_video_task, video_id=video.id, ...)
add_task(r, video_id) == [r EXCEPT ![video_id] = @ + 1]

\* The request ends with an error response.
Reject(id, route, code, e) ==
  /\ call' = [call EXCEPT ![id] =
                [route |-> route, pc |-> "done", path |-> call[id].path,
                 code |-> code, status |-> NULL, exc |-> e]]
  /\ UNCHANGED <<budget, search, calib, videos, runs, task>>

\* video = Video(.., status=PENDING); session.add(video); await
\* session.commit(): the row is inserted and the request waits for its
\* refresh.
Create(id, route, filename, path) ==
  /\ videos' = [videos EXCEPT ![id] = NewVideo(filename, path)]
  /\ call' = [call EXCEPT ![id] =
                [route |-> route, pc |-> "refresh", path |-> path,
                 code |-> 0, status |-> NULL, exc |-> NoExc]]
  /\ UNCHANGED <<budget, search, calib, runs, task>>

\* await session.refresh(video): the record store serves the SELECT of the
\* refresh while the route is suspended.  The refresh raises when the row is
\* gone or the record store fails, and then nothing schedules the run;
\* otherwise the route holds the status it read and waits to be resumed.
Refresh(id) ==
  /\ call[id].pc = "refresh"
  /\ \/ /\ videos[id] = NoRow
        /\ Reject(id, call[id].route, 500,
                  Exc("InvalidRequestError", "Could not refresh instance"))
        /\ UNCHANGED faults
     \/ /\ videos[id] # NoRow
        /\ CanFault
        /\ faults' = faults + 1
        /\ Reject(id, call[id].route, 500, Exc("OperationalError", "refresh"))
     \/ /\ videos[id] # NoRow
        /\ call' = [call EXCEPT ![id] =
                      [@ EXCEPT !.pc = "refreshed",
                                !.status = videos[id].status]]
        /\ UNCHANGED <<videos, runs, task, faults>>
  /\ UNCHANGED <<budget, search, calib, transcripts, visual, speech, files, ncalls, del,
                 ndeletes, crashes>>

\* The route is resumed after its refresh: add_task, and the response with
\* video.status as the refresh read it, whatever has happened to the row
\* since.
Register(id) ==
  /\ call[id].pc = "refreshed"
  /\ runs' = add_task(runs, id)
  /\ task' = [task EXCEPT ![id] = [NoTask EXCEPT !.pc = "lookup"]]
  /\ call' = [call EXCEPT ![id] = [@ EXCEPT !.pc = "done", !.code = 200]]
  /\ UNCHANGED <<budget, search, calib, videos, transcripts, visual, speech, files, ncalls,
                 del, ndeletes, faults, crashes>>

\* POST /videos with a file path, up to the commit of the new row.
AddVideo ==
  /\ ncalls < budget.videos
  /\ ncalls' = ncalls + 1
  /\ \E path \in {ExternalPath("a.mp4"), ExternalPath("bad.mp4"),
                  ExternalPath("odd.mp4"), ExternalPath("missing.mp4")} :
       LET id == ncalls + 1 IN
       IF path \notin DOMAIN files
       THEN Reject(id, "add", 400, HTTPException("Video file not found"))
            /\ UNCHANGED faults
       ELSE LET info == get_video_info(files, path) IN
            IF info.type = "RuntimeError"
            THEN Reject(id, "add", 400, HTTPException(Str(info)))
                 /\ UNCHANGED faults
            ELSE IF info # NoExc
            THEN Reject(id, "add", 500, info) /\ UNCHANGED faults
            ELSE \/ Create(id, "add", path[2], path) /\ UNCHANGED faults
                 \/ /\ CanFault          \* the commit raises
                    /\ faults' = faults + 1
                    /\ Reject(id, "add", 500, CommitError)
  /\ UNCHANGED <<budget, search, calib, transcripts, visual, speech, files, del, ndeletes, crashes>>

\* POST /videos/upload, up to `content = await file.read()`: open(upload_path,
\* "wb") has created the file, or emptied the one that was there.
UploadVideo ==
  /\ ncalls < budget.videos
  /\ ncalls' = ncalls + 1
  /\ \E filename \in Filenames \cup {""} :
       LET id == ncalls + 1 IN
       IF filename = ""
       THEN Reject(id, "upload", 400, HTTPException("No filename provided"))
            /\ UNCHANGED files
       ELSE /\ files' = WriteFile(files, UploadPath(filename), "empty")
            /\ call' = [call EXCEPT ![id] =
                          [route |-> "upload", pc |-> "read",
                           path |-> UploadPath(filename),
                           code |-> 0, status |-> NULL, exc |-> NoExc]]
            /\ UNCHANGED <<videos, runs, task>>
  /\ UNCHANGED <<budget, search, calib, transcripts, visual, speech, del, ndeletes, faults,
                 crashes>>

\* upload_video from f.write(content) to session.add(video): the bytes are
\* written through the handle opened before, the file is probed, and
\* unlinked when the probe raises RuntimeError; otherwise the route is
\* suspended in the commit of the new row.  When another request unlinked
\* the path since this one opened it, the bytes go to a file no path names
\* any more, the probe finds nothing and the unlink raises.
UploadWrite(id) ==
  /\ call[id].pc = "read"
  /\ \E content \in Contents :
       LET upload_path == call[id].path
           written == IF upload_path \in DOMAIN files
                      THEN WriteFile(files, upload_path, content)
                      ELSE files
           info == get_video_info(written, upload_path)
       IN
       IF info.type = "RuntimeError"
       THEN IF upload_path \in DOMAIN written
            THEN /\ files' = Unlink(written, upload_path)     \* Clean up
                 /\ Reject(id, "upload", 400, HTTPException(Str(info)))
                 /\ UNCHANGED faults
            ELSE /\ files' = written
                 /\ Reject(id, "upload", 500,
                           Exc("FileNotFoundError", "unlink"))
                 /\ UNCHANGED faults
       ELSE IF info # NoExc
       THEN /\ files' = written
            /\ Reject(id, "upload", 500, info) /\ UNCHANGED faults
       ELSE /\ files' = written
            /\ call' = [call EXCEPT ![id] = [@ EXCEPT !.pc = "commit"]]
            /\ UNCHANGED <<budget, search, calib, videos, runs, task, faults>>
  /\ UNCHANGED <<budget, search, calib, transcripts, visual, speech, ncalls, del, ndeletes,
                 crashes>>

\* await session.commit() of upload_video: the record store serves the
\* INSERT of the new row, or the commit raises.
UploadCommit(id) ==
  /\ call[id].pc = "commit"
  /\ \/ Create(id, "upload", call[id].path[2], call[id].path)
        /\ UNCHANGED faults
     \/ /\ CanFault
        /\ faults' = faults + 1
        /\ Reject(id, "upload", 500, CommitError)
  /\ UNCHANGED <<budget, search, calib, transcripts, visual, speech, files, ncalls, del,
                 ndeletes, crashes>>


\* ----------------------------------------------------- process_video_task
\* What the ffprobe command of count_frames does: it prints the number of
\* frames it read ("300"), it prints something that is no integer ("N/A"),
\* or it exits with an error ("error").
FrameProbes == {"300", "N/A", "error"}

\* count_frames: int(result.stdout.strip()); except (CalledProcessError,
\* ValueError): return 0.
count_frames(out) ==
  CASE out = "300" -> 300
    [] OTHER -> 0

At(v, pc) == task[v].pc = pc /\ ~task[v].dead /\ ~task[v].awaiting

\* The statement at which the coroutine continues after a call raised e:
\* the except clause.
Raise(t, fn, e) ==
  [t EXCEPT !.pc = "handler", !.caught = e, !.at = t.pc,
            !.calls = Append(@, fn)]

Called(t, fn) == [t EXCEPT !.calls = Append(@, fn)]

\* await session.commit() of task v, whose record (local changes applied)
\* is t, with ins new Transcript objects in the session: the record store
\* serves the commit, and the task continues at okpc, or in the except
\* clause when the commit raises.
Commit(v, t, ins, okpc) ==
  \E o \in CommitOutcomes(videos[v], t.pending, ins, CanFault) :
    /\ videos' = [videos EXCEPT ![v] = o.row]
    /\ transcripts' = [transcripts EXCEPT ![v] = @ + o.inserted]
    /\ faults' = IF o.exc = CommitError THEN faults + 1 ELSE faults
    /\ task' = [task EXCEPT ![v] =
                  IF o.exc = NoExc
                  THEN [t EXCEPT !.pc = okpc, !.pending = Clean,
                                 !.awaiting = FALSE]
                  ELSE [t EXCEPT !.pc = "handler", !.caught = o.exc,
                                 !.at = t.pc, !.awaiting = FALSE,
                                 !.pending = Rollback(t.pending)]]

\* The task is suspended in the commit that ends its step: its calls are
\* made, the record store has not served the commit yet.
Suspend(v, t) ==
  /\ task' = [task EXCEPT ![v] = [t EXCEPT !.awaiting = TRUE]]
  /\ UNCHANGED <<videos, transcripts, faults>>

\* An external call of task v raises.
Fails(v, fn) ==
  /\ CanFault
  /\ faults' = faults + 1
  /\ task' = [task EXCEPT ![v] = Raise(task[v], fn, ToolError(fn))]

\* Mutant of Lookup: the run goes on whether or not the select found a row.
LookupAssumesRow(v) ==
  /\ At(v, "lookup")
  /\ task' = [task EXCEPT ![v] = [@ EXCEPT !.pc = "init", !.bound = TRUE]]
  /\ UNCHANGED <<budget, search, calib, videos, transcripts, visual, speech, files, ncalls, call,
                 runs, del, ndeletes, faults, crashes>>

\* result = await session.execute(select(Video)...); scalar_one_or_none()
Lookup(v) ==
  /\ At(v, "lookup")
  /\ \/ /\ CanFault                       \* the query raises
        /\ faults' = faults + 1
        /\ task' = [task EXCEPT ![v] =
                      [@ EXCEPT !.pc = "handler", !.at = "lookup",
                                !.caught = Exc("OperationalError", "execute")]]
     \/ /\ videos[v] = NoRow              \* video_not_found: return
        /\ task' = [task EXCEPT ![v] = [@ EXCEPT !.pc = "done"]]
        /\ UNCHANGED faults
     \/ /\ videos[v] # NoRow
        /\ task' = [task EXCEPT ![v] = [@ EXCEPT !.pc = "init", !.bound = TRUE]]
        /\ UNCHANGED faults
  /\ UNCHANGED <<budget, search, calib, videos, transcripts, visual, speech, files, ncalls, call,
                 runs, del, ndeletes, crashes>>

\* vector_store.init_collections(); Step 1: mark EXTRACTING_FRAMES; the
\* task is suspended in the commit.
InitCollections(v) ==
  /\ At(v, "init")
  /\ \/ Fails(v, "init_collections") /\ UNCHANGED <<videos, transcripts>>
     \/ Suspend(v, [Called(task[v], "init_collections") EXCEPT
                      !.pending = mark_processing(@, EXTRACTING_FRAMES)])
  /\ UNCHANGED <<budget, search, calib, visual, speech, files, ncalls, call, runs, del, ndeletes,
                 crashes>>

\* keyframes = extract_keyframes(..); keyframe_count; frame_count =
\* count_frames(..); the task is suspended in the commit of the counts.
\* extract_keyframes makes the frames directory before it detects scenes;
\* count_frames returns 0 when its probe fails.
ExtractFrames(v) ==
  /\ At(v, "frames")
  /\ \/ /\ Fails(v, "extract_keyframes")
        /\ files' = WriteFile(files, FramesDir(v), 0)
        /\ UNCHANGED <<videos, transcripts>>
     \/ \E k \in 0..budget.keyframes, out \in FrameProbes :
          /\ files' = WriteFile(files, FramesDir(v), k)
          /\ Suspend(v, [Called(Called(task[v], "extract_keyframes"), "count_frames")
                           EXCEPT !.keyframes = k,
                                  !.pending = SetCounts(@, k, count_frames(out))])
  /\ UNCHANGED <<budget, search, calib, visual, speech, ncalls, call, runs, del, ndeletes, crashes>>

\* Step 2: mark EXTRACTING_AUDIO; commit
MarkAudio(v) ==
  /\ At(v, "audio_mark")
  /\ Commit(v, [task[v] EXCEPT !.pending = mark_processing(@, EXTRACTING_AUDIO)],
            0, "audio")
  /\ UNCHANGED <<budget, search, calib, visual, speech, files, ncalls, call, runs, del, ndeletes,
                 crashes>>

\* What the ffprobe command of has_audio does: it lists an audio stream
\* ("audio"), it lists nothing ("silent"), or it exits with an error and
\* subprocess.run raises CalledProcessError ("error").
ProbeOutcomes == {"audio", "silent", "error"}

\* Mutant of has_audio: only an empty listing answers False.
has_audio_unless_silent(probe) == probe # "silent"

\* has_audio: bool(result.stdout.strip()); except CalledProcessError:
\* return False.
has_audio(probe) ==
  IF probe = "error" THEN FALSE ELSE probe = "audio"

\* Mutant of ExtractAudio: the branch under `if has_audio:` runs whatever
\* has_audio answered.
ExtractAudioAlways(v) ==
  /\ At(v, "audio")
  /\ \E probe \in ProbeOutcomes :
       /\ files' = WriteFile(files, AudioPath(v), "wav")
       /\ Suspend(v, [Called(Called(task[v], "has_audio"), "extract_audio")
                        EXCEPT !.probe = probe, !.has_audio = has_audio(probe),
                               !.segments = 0,
                               !.pending = mark_processing(@, TRANSCRIBING)])
  /\ UNCHANGED <<budget, search, calib, visual, speech, ncalls, call, runs, del, ndeletes, crashes>>

\* has_audio = ..; segments = []; if has_audio: extract_audio; mark
\* TRANSCRIBING; the task is suspended in the commit.
ExtractAudio(v) ==
  /\ At(v, "audio")
  /\ \E probe \in ProbeOutcomes :
       LET t == [Called(task[v], "has_audio") EXCEPT
                   !.probe = probe, !.has_audio = has_audio(probe),
                   !.segments = 0] IN
       \/ /\ ~has_audio(probe)
          /\ task' = [task EXCEPT ![v] = [t EXCEPT !.pc = "embed_mark"]]
          /\ UNCHANGED <<videos, transcripts, files, faults>>
       \/ /\ has_audio(probe)
          /\ CanFault
          /\ faults' = faults + 1
          /\ task' = [task EXCEPT ![v] =
                        Raise(t, "extract_audio", ToolError("extract_audio"))]
          /\ UNCHANGED <<videos, transcripts, files>>
       \/ /\ has_audio(probe)
          /\ files' = WriteFile(files, AudioPath(v), "wav")
          /\ Suspend(v, [Called(t, "extract_audio")
                           EXCEPT !.pending = mark_processing(@, TRANSCRIBING)])
  /\ UNCHANGED <<budget, search, calib, visual, speech, ncalls, call, runs, del, ndeletes, crashes>>

\* segments = transcribe(audio_path); session.add(Transcript) for each;
\* the task is suspended in the commit of the Transcripts.
Transcribe(v) ==
  /\ At(v, "transcribe")
  /\ \/ Fails(v, "transcribe") /\ UNCHANGED <<videos, transcripts>>
     \/ \E s \in 0..budget.segments :
          Suspend(v, [Called(task[v], "transcribe") EXCEPT !.segments = s])
  /\ UNCHANGED <<budget, search, calib, visual, speech, files, ncalls, call, runs, del, ndeletes,
                 crashes>>

\* The statement a step continues at once the commit that ends it is
\* served.
AfterCommit(pc) ==
  CASE pc = "init" -> "frames"
    [] pc = "frames" -> "audio_mark"
    [] pc = "audio" -> "transcribe"
    [] OTHER -> "embed_mark"

\* The record store serves the commit the task is suspended in: the one of
\* EXTRACTING_FRAMES, of the counts, of TRANSCRIBING, or of the Transcript
\* objects added to the session (one per segment).
AwaitCommit(v) ==
  /\ task[v].awaiting
  /\ ~task[v].dead
  /\ Commit(v, task[v],
            IF task[v].pc = "transcribe" THEN task[v].segments ELSE 0,
            AfterCommit(task[v].pc))
  /\ UNCHANGED <<budget, search, calib, visual, speech, files, ncalls, call, runs, del, ndeletes,
                 crashes>>

\* Mutant of MarkEmbedding: the run goes on to the embeddings without
\* committing EMBEDDING.
MarkEmbeddingSkipped(v) ==
  /\ At(v, "embed_mark")
  /\ task' = [task EXCEPT ![v] = [@ EXCEPT !.pc = "embed_visual"]]
  /\ UNCHANGED <<budget, search, calib, videos, transcripts, visual, speech, files, ncalls,
                 call, runs, del, ndeletes, faults, crashes>>

\* Step 3: mark EMBEDDING; commit
MarkEmbedding(v) ==
  /\ At(v, "embed_mark")
  /\ Commit(v, [task[v] EXCEPT !.pending = mark_processing(@, EMBEDDING)],
            0, "embed_visual")
  /\ UNCHANGED <<budget, search, calib, visual, speech, files, ncalls, call, runs, del, ndeletes,
                 crashes>>


\* if keyframes: visual_embeddings = embed_images_batch(frame_paths);
\* store_visual_embeddings(video_id, keyframes, visual_embeddings)
EmbedVisual(v) ==
  /\ At(v, "embed_visual")
  /\ \/ /\ task[v].keyframes = 0
        /\ task' = [task EXCEPT ![v] = [@ EXCEPT !.pc = "embed_speech"]]
        /\ UNCHANGED <<visual, faults>>
     \/ /\ task[v].keyframes > 0
        /\ Fails(v, "embed_images_batch")
        /\ UNCHANGED visual
     \/ /\ task[v].keyframes > 0
        /\ CanFault                        \* the upsert raises
        /\ faults' = faults + 1
        /\ \E loadable \in SUBSET (1..task[v].keyframes) :
             task' = [task EXCEPT ![v] =
                        [Raise(Called(@, "embed_images_batch"),
                               "store_visual_embeddings",
                               ToolError("store_visual_embeddings"))
                           EXCEPT !.embeddings =
                                    embed_images_batch(task[v].keyframes, loadable)]]
        /\ UNCHANGED visual
     \/ /\ task[v].keyframes > 0
        /\ \E loadable \in SUBSET (1..task[v].keyframes) :
             LET e == embed_images_batch(task[v].keyframes, loadable) IN
             /\ visual' = store_visual_embeddings(visual, v, task[v].keyframes, e)
             /\ task' = [task EXCEPT ![v] =
                           [Called(Called(@, "embed_images_batch"),
                                   "store_visual_embeddings")
                              EXCEPT !.embeddings = e, !.pc = "embed_speech"]]
        /\ UNCHANGED faults
  /\ UNCHANGED <<budget, search, calib, videos, transcripts, speech, files, ncalls, call, runs, del,
                 ndeletes, crashes>>

\* if segments: speech_embeddings = embed_texts_batch(texts);
\* store_speech_embeddings(video_id, segments, speech_embeddings)
EmbedSpeech(v) ==
  /\ At(v, "embed_speech")
  /\ \/ /\ task[v].segments = 0
        /\ task' = [task EXCEPT ![v] = [@ EXCEPT !.pc = "complete"]]
        /\ UNCHANGED <<speech, faults>>
     \/ /\ task[v].segments > 0
        /\ Fails(v, "embed_texts_batch")
        /\ UNCHANGED speech
     \/ /\ task[v].segments > 0
        /\ CanFault                        \* the upsert raises
        /\ faults' = faults + 1
        /\ task' = [task EXCEPT ![v] =
                      Raise(Called(@, "embed_texts_batch"),
                            "store_speech_embeddings",
                            ToolError("store_speech_embeddings"))]
        /\ UNCHANGED speech
     \/ /\ task[v].segments > 0
        /\ speech' = store_speech_embeddings(speech, v, task[v].segments,
                                             embed_texts_batch(task[v].segments))
        /\ task' = [task EXCEPT ![v] =
                      [Called(Called(@, "embed_texts_batch"),
                              "store_speech_embeddings")
                         EXCEPT !.pc = "complete"]]
        /\ UNCHANGED faults
  /\ UNCHANGED <<budget, search, calib, videos, transcripts, visual, files, ncalls, call, runs, del,
                 ndeletes, crashes>>

\* Mark completed: video.mark_completed(); commit.  Once the commit is
\* served the task waits, at "return", to be resumed.
Complete(v) ==
  /\ At(v, "complete")
  /\ Commit(v, [task[v] EXCEPT !.pending = mark_completed(@)], 0, "return")
  /\ UNCHANGED <<budget, search, calib, visual, speech, files, ncalls, call, runs, del, ndeletes,
                 crashes>>

\* Mutant of Handler: the except clause also removes the Transcripts and the
\* points of the video.
HandlerCompensates(v) ==
  /\ At(v, "handler")
  /\ task[v].bound
  /\ \E o \in CommitOutcomes(videos[v],
                              mark_failed(task[v].pending, Str(task[v].caught)),
                              0, CanFault) :
       /\ videos' = [videos EXCEPT ![v] = o.row]
       /\ faults' = IF o.exc = CommitError THEN faults + 1 ELSE faults
       /\ task' = [task EXCEPT ![v] =
                     IF o.exc = NoExc
                     THEN [@ EXCEPT !.pc = "return", !.pending = Clean]
                     ELSE [@ EXCEPT !.pc = "raised", !.exc = o.exc,
                                    !.pending = Rollback(@)]]
  /\ transcripts' = [transcripts EXCEPT ![v] = 0]
  /\ visual' = DeleteWhere(visual, v)
  /\ speech' = DeleteWhere(speech, v)
  /\ UNCHANGED <<budget, search, calib, files, ncalls, call, runs, del, ndeletes,
                 crashes>>

\* The exceptions a session.commit() of the task raises.  The session is
\* not rolled back by the task after one of them: its transaction stays
\* inactive, and the next commit on it raises PendingRollbackError without
\* flushing anything.
FailedCommit(e) == e \in {CommitError, StaleDataError, IntegrityError}

\* except Exception as e: video.mark_failed(str(e)); commit.  Nothing
\* catches what the clause itself raises: the name video is unbound when
\* the lookup raised, the commit raises on the session of a commit that
\* failed, and it may raise on its own.  Once the commit is served the task
\* waits, at "return", to be resumed.
Handler(v) ==
  /\ At(v, "handler")
  /\ IF ~task[v].bound
     THEN /\ task' = [task EXCEPT ![v] =
                        [@ EXCEPT !.pc = "raised", !.exc = UnboundLocalError]]
          /\ UNCHANGED <<videos, transcripts, faults>>
     ELSE IF FailedCommit(task[v].caught)
     THEN /\ task' = [task EXCEPT ![v] =
                        [@ EXCEPT !.pc = "raised", !.exc = PendingRollbackError,
                                  !.pending = mark_failed(@, Str(task[v].caught))]]
          /\ UNCHANGED <<videos, transcripts, faults>>
     ELSE \E o \in CommitOutcomes(videos[v],
                                  mark_failed(task[v].pending, Str(task[v].caught)),
                                  0, CanFault) :
            /\ videos' = [videos EXCEPT ![v] = o.row]
            /\ faults' = IF o.exc = CommitError THEN faults + 1 ELSE faults
            /\ task' = [task EXCEPT ![v] =
                          IF o.exc = NoExc
                          THEN [@ EXCEPT !.pc = "return", !.pending = Clean]
                          ELSE [@ EXCEPT !.pc = "raised", !.exc = o.exc,
                                         !.pending = Rollback(@)]]
            /\ UNCHANGED transcripts
  /\ UNCHANGED <<budget, search, calib, visual, speech, files, ncalls, call, runs, del, ndeletes,
                 crashes>>

\* The task is resumed after the commit of COMPLETED (it logs
\* video_processing_complete) or of FAILED (it leaves the except clause),
\* leaves `async with`, which closes its session, and returns.
Return(v) ==
  /\ At(v, "return")
  /\ task' = [task EXCEPT ![v] = [@ EXCEPT !.pc = "done"]]
  /\ UNCHANGED <<budget, search, calib, videos, transcripts, visual, speech, files, ncalls,
                 call, runs, del, ndeletes, faults, crashes>>

\* ------------------------------------------------------------ delete_video
\* Mutant of delete_video_embeddings: only the speech collection is cleared.
delete_speech_only(vis, spe, video_id, canFault) ==
  {[exc |-> NoExc, visual |-> vis, speech |-> DeleteWhere(spe, video_id)]}

\* Mutant of delete_video_embeddings: a failure of client.delete is swallowed.
delete_video_embeddings_quiet(vis, spe, video_id, canFault) ==
  {[exc |-> NoExc, visual |-> DeleteWhere(vis, video_id),
    speech |-> DeleteWhere(spe, video_id)]}
  \cup (IF canFault
        THEN {[exc |-> NoExc, visual |-> vis, speech |-> spe],
              [exc |-> NoExc,
               visual |-> DeleteWhere(vis, video_id), speech |-> spe]}
        ELSE {})

\* delete_video_embeddings: client.delete on the visual collection, then on
\* the speech collection; either call may raise, and what the first one
\* deleted stays deleted.  The outcomes: the exception raised (or NoExc) and
\* the two collections afterwards.
delete_video_embeddings(vis, spe, video_id, canFault) ==
  {[exc |-> NoExc, visual |-> DeleteWhere(vis, video_id),
    speech |-> DeleteWhere(spe, video_id)]}
  \cup (IF canFault
        THEN {[exc |-> ToolError("delete_visual"), visual |-> vis, speech |-> spe],
              [exc |-> ToolError("delete_speech"),
               visual |-> DeleteWhere(vis, video_id), speech |-> spe]}
        ELSE {})

\* result = await session.execute(select(Video).where(Video.id == video_id))
\* of a new delete_video request for id v: the row is read, and the request
\* waits for the result.  found is the status of the row read, NULL when
\* there is none.
DeleteStart(v) ==
  /\ ndeletes < budget.deletes
  /\ ndeletes' = ndeletes + 1
  /\ \/ /\ CanFault                       \* the query raises
        /\ faults' = faults + 1
        /\ del' = [del EXCEPT ![ndeletes + 1] =
                     [pc |-> "done", video |-> v, result |-> 500,
                      found |-> NULL, exc |-> NoExc]]
     \/ /\ del' = [del EXCEPT ![ndeletes + 1] =
                     [pc |-> "selected", video |-> v, result |-> 0,
                      found |-> IF videos[v] = NoRow THEN NULL
                                ELSE videos[v].status,
                      exc |-> NoExc]]
        /\ UNCHANGED faults
  /\ UNCHANGED <<budget, search, calib, videos, transcripts, visual, speech, files, ncalls, call,
                 runs, task, crashes>>

\* Mutant of DeleteEmbeddings: the request goes on to the vector delete
\* without looking at what its select found.
DeleteEmbeddingsBlind(d) ==
  /\ del[d].pc = "selected"
  /\ \E o \in delete_video_embeddings(visual, speech, del[d].video, CanFault) :
       /\ visual' = o.visual
       /\ speech' = o.speech
       /\ faults' = IF o.exc = NoExc THEN faults ELSE faults + 1
       /\ del' = [del EXCEPT ![d] =
                    [@ EXCEPT !.pc = IF o.exc = NoExc THEN "commit" ELSE "done",
                              !.result = IF o.exc = NoExc THEN 0 ELSE 500]]
  /\ UNCHANGED <<budget, search, calib, videos, transcripts, files, ncalls, call, runs, task,
                 ndeletes, crashes>>

\* video = result.scalar_one_or_none(); 404 when there is none; then
\* delete_video_embeddings, and the request waits at "commit" for its
\* record-store calls.  result is the HTTP status of the request once it
\* has ended.
DeleteEmbeddings(d) ==
  /\ del[d].pc = "selected"
  /\ IF del[d].found = NULL
     THEN /\ del' = [del EXCEPT ![d] = [@ EXCEPT !.pc = "done", !.result = 404]]
          /\ UNCHANGED <<visual, speech, faults>>
     ELSE \E o \in delete_video_embeddings(visual, speech, del[d].video, CanFault) :
            /\ visual' = o.visual
            /\ speech' = o.speech
            /\ faults' = IF o.exc = NoExc THEN faults ELSE faults + 1
            /\ del' = [del EXCEPT ![d] =
                         [@ EXCEPT !.pc = IF o.exc = NoExc THEN "commit" ELSE "done",
                                   !.result = IF o.exc = NoExc THEN 0 ELSE 500]]
  /\ UNCHANGED <<budget, search, calib, videos, transcripts, files, ncalls, call, runs, task,
                 ndeletes, crashes>>

\* The statement under "# Delete transcripts" is a select: it removes
\* nothing.  session.delete(video); commit: Video.transcripts declares no
\* delete cascade, so the flush sets video_id of the Video's Transcript rows
\* to NULL, which the column (video_id: UUID, not nullable) rejects.  A
\* DELETE that matches no row (another request deleted it) is only warned
\* about.
DeleteRowOutcomes(row, ntranscripts, canFault) ==
  IF ntranscripts > 0
  THEN {[exc |-> IntegrityError, row |-> row]}
  ELSE {[exc |-> NoExc, row |-> NoRow]}
       \cup (IF canFault THEN {[exc |-> CommitError, row |-> row]} ELSE {})

\* await session.delete(video); await session.commit(): the record store
\* serves the commit while the route is suspended.
DeleteCommit(d) ==
  /\ del[d].pc = "commit"
  /\ LET v == del[d].video IN
     \E o \in DeleteRowOutcomes(videos[v], transcripts[v], CanFault) :
       /\ videos' = [videos EXCEPT ![v] = o.row]
       /\ faults' = IF o.exc = CommitError THEN faults + 1 ELSE faults
       /\ del' = [del EXCEPT ![d] = [@ EXCEPT !.pc = "committed", !.exc = o.exc]]
  /\ UNCHANGED <<budget, search, calib, transcripts, visual, speech, files, ncalls, call, runs, task,
                 ndeletes, crashes>>

\* The route is resumed after its commit: the exception of the commit
\* leaves the route (500), or the route logs video_deleted and returns
\* {"message": "Video deleted successfully"} (200).
DeleteAnswer(d) ==
  /\ del[d].pc = "committed"
  /\ del' = [del EXCEPT ![d] =
               [@ EXCEPT !.pc = "done",
                         !.result = IF del[d].exc = NoExc THEN 200 ELSE 500]]
  /\ UNCHANGED <<budget, search, calib, videos, transcripts, visual, speech, files, ncalls, call,
                 runs, task, ndeletes, faults, crashes>>

\* ------------------------------------------------------------------ crash
Running(t) == t.pc \notin {"none", "done", "raised"} /\ ~t.dead

\* A request that is waiting at one of its awaits.
Waiting(c) == c.pc \in {"read", "commit", "refresh", "refreshed"}

Deleting(r) == r.pc \in {"selected", "commit", "committed"}

\* Every coroutine in flight is gone.
Killed ==
  /\ task' = [v \in VideoIds |->
                IF Running(task[v]) THEN [task[v] EXCEPT !.dead = TRUE]
                ELSE task[v]]
  /\ call' = [v \in VideoIds |->
                IF Waiting(call[v]) THEN [call[v] EXCEPT !.pc = "dead"]
                ELSE call[v]]
  /\ del' = [d \in DeleteIds |->
               IF Deleting(del[d]) THEN [del[d] EXCEPT !.pc = "dead"]
               ELSE del[d]]

\* The server process dies: every coroutine in flight is gone, the record
\* store, the vector index and the disk keep what they hold.  Nothing
\* schedules a run again after the restart.
Crash ==
  /\ crashes < budget.crashes
  /\ \/ \E v \in VideoIds : Running(task[v]) \/ Waiting(call[v])
     \/ \E d \in DeleteIds : Deleting(del[d])
  /\ crashes' = crashes + 1
  /\ Killed
  /\ UNCHANGED <<budget, search, calib, videos, transcripts, visual, speech, files, ncalls,
                 runs, ndeletes, faults>>

\* ------------------------------------------------------------------- spec
Next ==
  \/ AddVideo
  \/ UploadVideo
  \/ \E v \in VideoIds :
       \/ UploadWrite(v) \/ UploadCommit(v) \/ Refresh(v) \/ Register(v)
       \/ Lookup(v) \/ InitCollections(v) \/ ExtractFrames(v) \/ MarkAudio(v)
       \/ ExtractAudio(v) \/ Transcribe(v) \/ AwaitCommit(v) \/ MarkEmbedding(v)
       \/ EmbedVisual(v) \/ EmbedSpeech(v) \/ Complete(v) \/ Handler(v)
       \/ Return(v)
       \/ DeleteStart(v)
  \/ \E d \in DeleteIds :
       DeleteEmbeddings(d) \/ DeleteCommit(d) \/ DeleteAnswer(d)
  \/ Crash

Spec == Init /\ [][Next]_vars

\* ----------------------------------------------------------- search_videos
\* SearchType
VISUAL == "visual"
SPEECH == "speech"
HYBRID == "hybrid"
SearchTypes == {VISUAL, SPEECH, HYBRID}

\* The vectors of the model are named by numbers; the query texts too, and
\* a text embeds, in either space, to the vector of its number.
Vectors == {1, 2}
QueryTexts == {1, 2}
embed_text_visual(text) == text
embed_text(text) == text

\* Cosine similarity of two vectors, in hundredths.
Similarity(x, y) == IF x = y THEN 30 ELSE 5

\* SearchQuery.threshold, in hundredths.
Thresholds == {0, 10}

\* Mutant of Eligible: the threshold is ignored.
EligibleAll(coll, query, score_threshold) == coll

\* score_threshold of query_points: the points whose score reaches it.
Eligible(coll, query, score_threshold) ==
  {p \in coll : Similarity(query, p.vector) >= score_threshold}

\* client.query_points(collection, query, limit, score_threshold): at most
\* limit points of the collection whose score reaches the threshold, the
\* best ones, by falling score; the index decides the order of equal
\* scores.  The set of the answers it can give.
query_points(coll, query, limit, score_threshold) ==
  LET eligible == Eligible(coll, query, score_threshold)
      n == Min(limit, Cardinality(eligible))
      Score(p) == Similarity(query, p.vector)
  IN {[i \in 1..n |-> [point |-> f[i], score |-> Score(f[i])]] :
        f \in {g \in [1..n -> eligible] :
                 /\ \A i, j \in 1..n : i < j =>
                      g[i] # g[j] /\ Score(g[i]) >= Score(g[j])
                 /\ \A p \in eligible :
                      (\A i \in 1..n : g[i] # p) =>
                        \A i \in 1..n : Score(p) <= Score(g[i])}}

\* search_visual / search_speech: the dicts built from the scored points.
search_visual(coll, query_embedding, limit, score_threshold) ==
  {[i \in 1..Len(r) |->
      [video_id |-> r[i].point.video_id, timestamp |-> r[i].point.timestamp,
       score |-> r[i].score, type |-> "visual"]] :
     r \in query_points(coll, query_embedding, limit, score_threshold)}

search_speech(coll, query_embedding, limit, score_threshold) ==
  {[i \in 1..Len(r) |->
      [video_id |-> r[i].point.video_id, timestamp |-> r[i].point.timestamp,
       score |-> r[i].score, type |-> "speech"]] :
     r \in query_points(coll, query_embedding, limit, score_threshold)}

\* Mutant of UsesVisual: the visual collection is queried for every type.
UsesVisualAlways(search_type) == TRUE

\* if query.search_type in (SearchType.VISUAL, SearchType.HYBRID)
UsesVisual(search_type) == search_type \in {VISUAL, HYBRID}

\* if query.search_type in (SearchType.SPEECH, SearchType.HYBRID)
UsesSpeech(search_type) == search_type \in {SPEECH, HYBRID}

\* Mutant of Extend: a hit is not added when the list already holds one of
\* the same video and time.
ExtendDeduplicated(results, more) ==
  LET New(r) == \A i \in 1..Len(results) :
                  ~(results[i].video_id = r.video_id
                    /\ results[i].timestamp = r.timestamp)
  IN results \o SelectSeq(more, New)

\* results.extend(more)
Extend(results, more) == results \o more

\* Mutant of SortByScore: the list is left as it is.
SortByScoreNot(results) == results

\* results.sort(key=lambda x: x["score"], reverse=True): the sort is stable,
\* also under reverse, so equal scores keep the order they had.
RECURSIVE SortByScore(_)
SortByScore(results) ==
  IF results = <<>> THEN <<>>
  ELSE LET r == results[Len(results)]
           sorted == SortByScore(SubSeq(results, 1, Len(results) - 1))
           k == Cardinality({i \in 1..Len(sorted) : sorted[i].score >= r.score})
       IN SubSeq(sorted, 1, k) \o <<r>> \o SubSeq(sorted, k + 1, Len(sorted))

\* Mutant of Truncate: the last limit entries are kept.
TruncateTail(results, limit) ==
  SubSeq(results, Len(results) - Min(limit, Len(results)) + 1, Len(results))

\* results[: query.limit]
Truncate(results, limit) == SubSeq(results, 1, Min(limit, Len(results)))

\* SearchResult(video_id=.., video_filename=video.filename, score=r["score"],
\* result_type=r["type"], ..)
SearchResult(r, video) ==
  [video_id |-> r.video_id, video_filename |-> video.filename,
   timestamp |-> r.timestamp, score |-> r.score, result_type |-> r.type]

\* Mutant of Enrich: only the results of COMPLETED videos are kept.
EnrichCompleted(results, rows) ==
  LET Found(r) == rows[r.video_id].status = COMPLETED
      kept == SelectSeq(results, Found)
  IN [i \in 1..Len(kept) |-> SearchResult(kept[i], rows[kept[i].video_id])]

\* Mutant of Enrich: the results without a Video row are kept.
EnrichAll(results, rows) ==
  [i \in 1..Len(results) |-> SearchResult(results[i], rows[results[i].video_id])]

\* The loop over results: those whose Video the select returned, in order.
Enrich(results, rows) ==
  LET Found(r) == rows[r.video_id] # NoRow
      kept == SelectSeq(results, Found)
  IN [i \in 1..Len(kept) |-> SearchResult(kept[i], rows[kept[i].video_id])]

\* The embedder and vector-index calls of a search of search_type, in the
\* order search_videos makes them.
SearchStages(search_type) ==
  (IF UsesVisual(search_type) THEN <<"embed_text_visual", "search_visual">>
   ELSE <<>>)
  \o (IF UsesSpeech(search_type) THEN <<"embed_text", "search_speech">>
      ELSE <<>>)

\* The query_points calls a search makes when it gets through the first n
\* of its stages.
QueryCalls(search_type, limit, threshold, n) ==
  LET st == SubSeq(SearchStages(search_type), 1, n)
      Made(c) == c \in {"search_visual", "search_speech"}
      made == SelectSeq(st, Made)
  IN [i \in 1..Len(made) |->
        [collection |-> IF made[i] = "search_visual" THEN VISUAL_COLLECTION
                        ELSE SPEECH_COLLECTION,
         limit |-> limit, score_threshold |-> threshold]]

\* search_videos up to `await session.execute(select(Video)...)`: the
\* vector queries of the search type, the sort and the cut, and the select
\* is sent.  When stage n of the embedder and vector-index calls raises,
\* the exception leaves the route (500).
SearchQuery ==
  /\ search.pc = "idle"
  /\ \E search_type \in SearchTypes, limit \in 1..MaxLimit,
        threshold \in Thresholds, text \in QueryTexts :
       \E vr \in (IF UsesVisual(search_type)
                  THEN search_visual(visual, embed_text_visual(text), limit, threshold)
                  ELSE {<<>>}),
          sr \in (IF UsesSpeech(search_type)
                  THEN search_speech(speech, embed_text(text), limit, threshold)
                  ELSE {<<>>}) :
         LET q == [query |-> text, search_type |-> search_type,
                   limit |-> limit, threshold |-> threshold]
             stages == SearchStages(search_type)
         IN
         \/ /\ search' =
                 [NoSearch EXCEPT
                    !.pc = "enrich",
                    !.query = q,
                    !.calls = QueryCalls(search_type, limit, threshold, Len(stages)),
                    !.visual_results = vr,
                    !.speech_results = sr,
                    !.results = Truncate(SortByScore(Extend(Extend(<<>>, vr), sr)),
                                         limit)]
            /\ UNCHANGED faults
         \/ /\ CanFault
            /\ faults' = faults + 1
            /\ \E n \in 1..Len(stages) :
                 search' =
                   [NoSearch EXCEPT
                      !.pc = "done",
                      !.code = 500,
                      !.query = q,
                      !.calls = QueryCalls(search_type, limit, threshold, n),
                      !.visual_results =
                        IF UsesVisual(search_type) /\ n > 2 THEN vr ELSE <<>>]
  /\ UNCHANGED <<budget, calib, videos, transcripts, visual, speech, files, ncalls,
                 call, runs, task, del, ndeletes, crashes>>

\* The record store serves the select of the Video rows of the results
\* while the route is suspended: rows is what it returns, the rows of the
\* ids in the list as they are now.  When the select raises, the exception
\* leaves the route (500).
SearchSelect ==
  /\ search.pc = "enrich"
  /\ \/ /\ LET video_ids == {search.results[i].video_id :
                                i \in 1..Len(search.results)}
           IN search' = [search EXCEPT
                           !.pc = "rows",
                           !.rows = [v \in VideoIds |->
                                       IF v \in video_ids THEN videos[v]
                                       ELSE NoRow]]
        /\ UNCHANGED faults
     \/ /\ CanFault
        /\ faults' = faults + 1
        /\ search' = [search EXCEPT !.pc = "done", !.code = 500]
  /\ UNCHANGED <<budget, calib, videos, transcripts, visual, speech, files, ncalls,
                 call, runs, task, del, ndeletes, crashes>>

\* The rest of search_videos, once the route is resumed: the results whose
\* row the select returned become the response.
SearchEnrich ==
  /\ search.pc = "rows"
  /\ LET search_results == Enrich(search.results, search.rows) IN
     search' = [search EXCEPT
                  !.pc = "done",
                  !.code = 200,
                  !.response = [results |-> search_results,
                                total_results |-> Len(search_results)]]
  /\ UNCHANGED <<budget, calib, videos, transcripts, visual, speech, files, ncalls,
                 call, runs, task, del, ndeletes, faults, crashes>>

\* The provider calls of a run that got through extraction and
\* transcription, in order.
ExtractionCalls(probe) ==
  <<"init_collections", "extract_keyframes", "count_frames", "has_audio">>
  \o (IF has_audio(probe) THEN <<"extract_audio", "transcribe">> ELSE <<>>)

\* The provider calls of a run that ended COMPLETED, in order.
CompletedCalls(k, s, probe) ==
  ExtractionCalls(probe)
  \o (IF k > 0 THEN <<"embed_images_batch", "store_visual_embeddings">>
      ELSE <<>>)
  \o (IF s > 0 THEN <<"embed_texts_batch", "store_speech_embeddings">>
      ELSE <<>>)

\* The row of a video whose run ended COMPLETED with k keyframes; the frame
\* probe of the file counted its frames.
IndexedRow(k) ==
  [NewVideo("a.mp4", ExternalPath("a.mp4")) EXCEPT
     !.status = COMPLETED, !.processed_at = NOW,
     !.keyframe_count = k, !.frame_count = count_frames("300")]

\* The task of that run at its end: k keyframes, s segments, probe what the
\* audio probe did, ve the vectors embed_images_batch returned.
IndexedTask(k, s, probe, ve) ==
  [NoTask EXCEPT !.pc = "done", !.bound = TRUE, !.keyframes = k,
                 !.segments = s, !.has_audio = has_audio(probe),
                 !.probe = probe, !.embeddings = ve,
                 !.calls = CompletedCalls(k, s, probe)]

\* Both videos are indexed: their runs ended COMPLETED, with k keyframes of
\* which Len(ve) could be opened, and with s segments when the audio probe
\* found an audio track.
IndexedInit ==
  \E k \in [VideoIds -> 0..MaxKeyframes],
     probe \in [VideoIds -> ProbeOutcomes] :
  \E ve \in {f \in [VideoIds -> UNION {[1..n -> Vectors] : n \in 0..MaxKeyframes}] :
                \A v \in VideoIds : Len(f[v]) <= k[v]},
     se \in {f \in [VideoIds -> UNION {[1..n -> Vectors] : n \in 0..MaxSegments}] :
                \A v \in VideoIds : ~has_audio(probe[v]) => f[v] = <<>>} :
    LET s == [v \in VideoIds |-> Len(se[v])]
        audio == {v \in VideoIds : has_audio(probe[v])}
    IN
      /\ videos = [v \in VideoIds |-> IndexedRow(k[v])]
      /\ transcripts = s
      /\ visual = UNION {BuildPoints(v, k[v], ve[v], "visual") : v \in VideoIds}
      /\ speech = UNION {BuildPoints(v, s[v], se[v], "speech") : v \in VideoIds}
      /\ files = [q \in {ExternalPath("a.mp4")}
                         \cup {FramesDir(v) : v \in VideoIds}
                         \cup {AudioPath(v) : v \in audio} |->
                   CASE q = ExternalPath("a.mp4") -> "good"
                     [] q[1] = "frames" -> k[q[2]]
                     [] OTHER -> "wav"]
      /\ ncalls = 2
      /\ call = [v \in VideoIds |->
                   [route |-> "add", pc |-> "done",
                    path |-> ExternalPath("a.mp4"), code |-> 200,
                    status |-> PENDING, exc |-> NoExc]]
      /\ runs = [v \in VideoIds |-> 1]
      /\ task = [v \in VideoIds |-> IndexedTask(k[v], s[v], probe[v], ve[v])]
      /\ del = [d \in DeleteIds |-> NoDelete]
      /\ ndeletes = 0
      /\ faults = 0
      /\ crashes = 0
      /\ search = NoSearch
      /\ calib = NoCalib

\* Every keyframe of v has its point, and v has Transcripts or no audio
\* track at all.
FullyIndexed(v) ==
  /\ Len(task[v].embeddings) = task[v].keyframes
  /\ task[v].probe = (IF task[v].segments > 0 THEN "audio" ELSE "silent")

\* One search runs while a delete_video request is served, over an index of
\* at most MaxPoints points.
SearchInit ==
  /\ IndexedInit
  /\ \A v \in VideoIds : FullyIndexed(v)
  /\ Cardinality(visual) + Cardinality(speech) <= MaxPoints
  /\ budget = [videos |-> 2, faults |-> 0, deletes |-> 1, crashes |-> 0,
               keyframes |-> MaxKeyframes, segments |-> MaxSegments]

SearchNext ==
  \/ SearchQuery
  \/ SearchSelect
  \/ SearchEnrich
  \/ \E v \in VideoIds : DeleteStart(v)
  \/ \E d \in DeleteIds :
       DeleteEmbeddings(d) \/ DeleteCommit(d) \/ DeleteAnswer(d)

SearchSpec == SearchInit /\ [][SearchNext]_vars

\* ---------------------------------------------------- rescale_siglip_score
\* Floats are fixed-point numbers here: cosine scores and rescaled scores in
\* hundredths, the argument of exp in hundredths, its value in thousandths.
OverflowError == Exc("OverflowError", "math range error")

\* e^a for a whole a in 0..6, in thousandths.
ExpWhole(a) ==
  CASE a = 0 -> 1000 [] a = 1 -> 2718 [] a = 2 -> 7389 [] a = 3 -> 20086
    [] a = 4 -> 54598 [] a = 5 -> 148413 [] OTHER -> 403429

\* e^(b/100) for b in 0..99, in thousandths (the series up to the 4th power).
ExpFraction(b) ==
  LET t == 10 * b IN
  1000 + t + (t * t) \div 2000 + (t * t * t) \div 6000000
       + (((t * t) \div 1000) * ((t * t) \div 1000)) \div 24000

\* e^(y/100) for y in 0..699, in thousandths.
ExpPositive(y) == (ExpWhole(y \div 100) * ExpFraction(y % 100)) \div 1000

\* math.exp(y/100): OverflowError above ln(max double) = 709.78; outside
\* -7..7 the value is beyond what thousandths tell apart from 0 and from
\* "large".
math_exp(y) ==
  IF y > 70978 THEN [exc |-> OverflowError, value |-> 0]
  ELSE IF y >= 700 THEN [exc |-> NoExc, value |-> 2000000]
  ELSE IF y >= 0 THEN [exc |-> NoExc, value |-> ExpPositive(y)]
  ELSE IF y > -700 THEN [exc |-> NoExc, value |-> 1000000 \div ExpPositive(-y)]
  ELSE [exc |-> NoExc, value |-> 0]

Max(a, b) == IF a > b THEN a ELSE b

\* rescale_siglip_score(cosine_score), cosine_score in hundredths:
\* midpoint = 0.18; steepness = 12; x = (cosine_score - midpoint) * steepness;
\* rescaled = 1 / (1 + math.exp(-x)); return max(0.0, min(1.0, rescaled))
rescale_siglip_score(cosine_score) ==
  LET midpoint == 18
      steepness == 12
      x == (cosine_score - midpoint) * steepness
      e == math_exp(-x)
  IN IF e.exc # NoExc THEN [exc |-> e.exc, value |-> NULL]
     ELSE [exc |-> NoExc,
           value |-> Max(0, Min(100, 100000 \div (1000 + e.value)))]

\* The arguments rescale_siglip_score is called with: the cosines -1..1 and
\* floats outside that range.
CosineScores == (-100..100) \cup {-6000, -5897, -5896, 1000}

\* rescale_siglip_score is called, any number of times.
Rescale ==
  /\ \E c \in CosineScores :
       calib' = [arg |-> c, called |-> TRUE, result |-> rescale_siglip_score(c)]
  /\ UNCHANGED <<budget, search, videos, transcripts, visual, speech, files, ncalls,
                 call, runs, task, del, ndeletes, faults, crashes>>

RescaleInit ==
  /\ InitStores
  /\ budget = [videos |-> 0, faults |-> 0, deletes |-> 0, crashes |-> 0,
               keyframes |-> MaxKeyframes, segments |-> MaxSegments]

RescaleSpec == RescaleInit /\ [][Rescale]_vars

\* ------------------------------------------------ two pipelines at a time
\* Two videos, of at most one segment each, are registered and their runs
\* interleave; one call may fail.  No delete_video request and no crash.
ConcurrentInit ==
  /\ InitStores
  /\ budget = [videos |-> 2, faults |-> 1, deletes |-> 0, crashes |-> 0,
               keyframes |-> MaxKeyframes, segments |-> 1]

ConcurrentNext ==
  \/ AddVideo
  \/ UploadVideo
  \/ \E v \in VideoIds :
       \/ UploadWrite(v) \/ UploadCommit(v) \/ Refresh(v) \/ Register(v)
       \/ Lookup(v) \/ InitCollections(v) \/ ExtractFrames(v) \/ MarkAudio(v)
       \/ ExtractAudio(v) \/ Transcribe(v) \/ AwaitCommit(v) \/ MarkEmbedding(v)
       \/ EmbedVisual(v) \/ EmbedSpeech(v) \/ Complete(v) \/ Handler(v)
       \/ Return(v)

ConcurrentSpec == ConcurrentInit /\ [][ConcurrentNext]_vars

\* ------------------------------------------------------- one run, longer
\* One video is registered and processed; extract_keyframes and transcribe
\* may return up to MaxItems items, one call may fail and the process may
\* die.  No delete_video request.
PipelineInit ==
  /\ InitStores
  /\ budget = [videos |-> 1, faults |-> 1, deletes |-> 0,
               crashes |-> MaxCrashes, keyframes |-> MaxItems,
               segments |-> MaxItems]

PipelineNext ==
  \/ AddVideo
  \/ UploadVideo
  \/ \E v \in VideoIds :
       \/ UploadWrite(v) \/ UploadCommit(v) \/ Refresh(v) \/ Register(v)
       \/ Lookup(v) \/ InitCollections(v) \/ ExtractFrames(v) \/ MarkAudio(v)
       \/ ExtractAudio(v) \/ Transcribe(v) \/ AwaitCommit(v) \/ MarkEmbedding(v)
       \/ EmbedVisual(v) \/ EmbedSpeech(v) \/ Complete(v) \/ Handler(v)
       \/ Return(v)
  \/ Crash

PipelineSpec == PipelineInit /\ [][PipelineNext]_vars

\* ------------------------------------------------- one run, run to its end
\* A step of the coroutine process_video_task of video v.
RunStep(v) ==
  \/ Lookup(v) \/ InitCollections(v) \/ ExtractFrames(v) \/ MarkAudio(v)
  \/ ExtractAudio(v) \/ Transcribe(v) \/ AwaitCommit(v) \/ MarkEmbedding(v)
  \/ EmbedVisual(v) \/ EmbedSpeech(v) \/ Complete(v) \/ Handler(v)
  \/ Return(v)

\* One video is registered and processed, one call may fail; no delete_video
\* request, no crash.  The event loop resumes every coroutine that can go
\* on, and every external call returns or raises: a run that can take a step
\* takes one.
LiveInit ==
  /\ InitStores
  /\ budget = [videos |-> 1, faults |-> 1, deletes |-> 0, crashes |-> 0,
               keyframes |-> MaxKeyframes, segments |-> MaxSegments]

LiveNext ==
  \/ AddVideo
  \/ UploadVideo
  \/ \E v \in VideoIds :
       \/ UploadWrite(v) \/ UploadCommit(v) \/ Refresh(v) \/ Register(v)
       \/ Lookup(v) \/ InitCollections(v) \/ ExtractFrames(v) \/ MarkAudio(v)
       \/ ExtractAudio(v) \/ Transcribe(v) \/ AwaitCommit(v) \/ MarkEmbedding(v)
       \/ EmbedVisual(v) \/ EmbedSpeech(v) \/ Complete(v) \/ Handler(v)
       \/ Return(v)

LiveSpec ==
  /\ LiveInit
  /\ [][LiveNext]_vars
  /\ \A v \in VideoIds : WF_vars(RunStep(v))

\* ------------------------------------------------ extract_thumbnail
\* extract_thumbnail called for video v on a path, whether or not a run of
\* v is in flight; ffmpeg writes the image or exits with an error.
ExtractThumbnail(v) ==
  /\ \E path \in {ExternalPath("a.mp4"), ExternalPath("bad.mp4"),
                  ExternalPath("odd.mp4"), ExternalPath("missing.mp4")},
        ffmpeg_ok \in BOOLEAN :
       files' = extract_thumbnail(files, path, v, ffmpeg_ok).files
  /\ UNCHANGED <<budget, search, calib, videos, transcripts, visual, speech, ncalls, call,
                 runs, task, del, ndeletes, faults, crashes>>

ThumbnailNext ==
  \/ PipelineNext
  \/ \E v \in VideoIds : ExtractThumbnail(v)

\* One run, and extract_thumbnail called at any moment beside it.
ThumbnailSpec == PipelineInit /\ [][ThumbnailNext]_vars

\* ------------------------------------------- the store functions on their own
\* store_visual_embeddings / store_speech_embeddings called directly, any
\* number of times, for any video id: the embeddings of k frame images of
\* which those in loadable open, of s segment texts.  The task record of the
\* id keeps the arguments of the last call.
StoreInit ==
  /\ InitStores
  /\ budget = [videos |-> 0, faults |-> 0, deletes |-> 0, crashes |-> 0,
               keyframes |-> MaxKeyframes, segments |-> MaxSegments]

StoreVisual ==
  /\ \E v \in VideoIds, k \in 1..MaxItems :
       \E loadable \in SUBSET (1..k) :
         LET e == embed_images_batch(k, loadable) IN
         /\ visual' = store_visual_embeddings(visual, v, k, e)
         /\ task' = [task EXCEPT ![v] = [@ EXCEPT !.keyframes = k, !.embeddings = e]]
  /\ UNCHANGED <<budget, search, calib, videos, transcripts, speech, files, ncalls, call, runs,
                 del, ndeletes, faults, crashes>>

StoreSpeech ==
  /\ \E v \in VideoIds, s \in 1..MaxItems :
       /\ speech' = store_speech_embeddings(speech, v, s, embed_texts_batch(s))
       /\ task' = [task EXCEPT ![v] = [@ EXCEPT !.segments = s]]
  /\ UNCHANGED <<budget, search, calib, videos, transcripts, visual, files, ncalls, call, runs,
                 del, ndeletes, faults, crashes>>

StoreNext == StoreVisual \/ StoreSpeech

StoreSpec == StoreInit /\ [][StoreNext]_vars


\* ------------------------------------------------ delete_video on its own
\* The process dies inside delete_video_embeddings of delete_video request
\* d, between the client.delete on the visual collection and the one on
\* the speech collection: the request is gone with every coroutine in
\* flight, the visual points of its video are deleted, the rest is as it
\* was.
CrashInDelete(d) ==
  /\ del[d].pc = "selected"
  /\ del[d].found # NULL
  /\ crashes < budget.crashes
  /\ crashes' = crashes + 1
  /\ visual' = DeleteWhere(visual, del[d].video)
  /\ Killed
  /\ UNCHANGED <<budget, search, calib, videos, transcripts, speech, files, ncalls,
                 runs, ndeletes, faults>>

\* Both videos are indexed and no run is in flight; two delete_video requests
\* are served while a call of the vector index may raise and the process
\* may die.
DeleteInit ==
  /\ IndexedInit
  /\ budget = [videos |-> 2, faults |-> 1, deletes |-> 2,
               crashes |-> MaxCrashes, keyframes |-> MaxKeyframes,
               segments |-> MaxSegments]

DeleteNext ==
  \/ \E v \in VideoIds : DeleteStart(v)
  \/ \E d \in DeleteIds :
       DeleteEmbeddings(d) \/ DeleteCommit(d) \/ DeleteAnswer(d)
       \/ CrashInDelete(d)
  \/ Crash

DeleteSpec == DeleteInit /\ [][DeleteNext]_vars


\* ------------------------------------------- search while runs are embedding
\* The task of a run that has got through extraction and transcription
\* with k keyframes and s segments, probe being what the audio probe did,
\* and is about to mark EMBEDDING.
ExtractedTask(k, s, probe) ==
  [NoTask EXCEPT
     !.pc = "embed_mark", !.bound = TRUE, !.keyframes = k, !.segments = s,
     !.has_audio = has_audio(probe), !.probe = probe,
     !.calls = ExtractionCalls(probe)]

\* Its row: the last status committed is TRANSCRIBING when the video has an
\* audio track, EXTRACTING_AUDIO when it has none.
ExtractedRow(k, probe) ==
  [NewVideo("a.mp4", ExternalPath("a.mp4")) EXCEPT
     !.status = IF has_audio(probe) THEN TRANSCRIBING ELSE EXTRACTING_AUDIO,
     !.keyframe_count = k, !.frame_count = count_frames("300")]

\* Two videos were added, video 1 with audio (one segment) and video 2
\* without, and both runs are about to mark EMBEDDING; one search is
\* answered while the runs go on, and one call may fail.
VisibleInit ==
  \E k \in [VideoIds -> 1..MaxKeyframes],
     s \in {f \in [VideoIds -> 0..1] : f[1] > 0 /\ f[2] = 0} :
    /\ videos = [v \in VideoIds |->
                   ExtractedRow(k[v], IF s[v] > 0 THEN "audio" ELSE "silent")]
    /\ transcripts = s
    /\ visual = {}
    /\ speech = {}
    /\ files = [q \in {ExternalPath("a.mp4"), ExternalPath("bad.mp4"),
                        ExternalPath("odd.mp4")}
                       \cup {FramesDir(v) : v \in VideoIds}
                       \cup {AudioPath(v) : v \in {w \in VideoIds : s[w] > 0}} |->
                 CASE q = ExternalPath("a.mp4") -> "good"
                   [] q = ExternalPath("bad.mp4") -> "corrupt"
                   [] q = ExternalPath("odd.mp4") -> "malformed"
                   [] q[1] = "frames" -> k[q[2]]
                   [] OTHER -> "wav"]
    /\ ncalls = 2
    /\ call = [v \in VideoIds |->
                 [route |-> "add", pc |-> "done",
                  path |-> ExternalPath("a.mp4"), code |-> 200,
                  status |-> PENDING, exc |-> NoExc]]
    /\ runs = [v \in VideoIds |-> 1]
    /\ task = [v \in VideoIds |->
                 ExtractedTask(k[v], s[v], IF s[v] > 0 THEN "audio" ELSE "silent")]
    /\ del = [d \in DeleteIds |-> NoDelete]
    /\ ndeletes = 0
    /\ faults = 0
    /\ crashes = 0
    /\ search = NoSearch
    /\ calib = NoCalib
    /\ budget = [videos |-> 2, faults |-> 1, deletes |-> 0, crashes |-> 0,
                 keyframes |-> MaxKeyframes, segments |-> 1]

VisibleNext ==
  \/ SearchQuery
  \/ SearchSelect
  \/ SearchEnrich
  \/ \E v \in VideoIds :
       \/ MarkEmbedding(v) \/ EmbedVisual(v) \/ EmbedSpeech(v)
       \/ Complete(v) \/ Handler(v) \/ Return(v)

VisibleSpec == VisibleInit /\ [][VisibleNext]_vars


\* ================================================================= claims
HasRow(v) == videos[v] # NoRow

\* The delete_video requests made for video v.
DeletesOf(v) == {d \in DeleteIds : del[d].video = v}
Terminal == {COMPLETED, FAILED}
Ended(t) == t.pc \in {"done", "raised"}

\* The moves of the status column the pipeline order allows.
AllowedMoves ==
  {<<PENDING, EXTRACTING_FRAMES>>, <<EXTRACTING_FRAMES, EXTRACTING_AUDIO>>,
   <<EXTRACTING_AUDIO, TRANSCRIBING>>, <<EXTRACTING_AUDIO, EMBEDDING>>,
   <<TRANSCRIBING, EMBEDDING>>, <<EMBEDDING, COMPLETED>>}
  \cup {<<s, FAILED>> : s \in {PENDING, EXTRACTING_FRAMES, EXTRACTING_AUDIO,
                               TRANSCRIBING, EMBEDDING}}

StatusMoveOk(v) ==
  LET a == videos[v].status
      b == videos'[v].status
  IN \/ a = b
     \/ a = "norow" /\ b = PENDING /\ call'[v].pc = "refresh"  \* the row is created
     \/ a # "norow" /\ b = "norow"                          \* the row is deleted
     \/ /\ <<a, b>> \in AllowedMoves
        /\ b = TRANSCRIBING => task'[v].has_audio
        /\ (a = EXTRACTING_AUDIO /\ b = EMBEDDING) => ~task[v].has_audio

\* C1: every change of a Video's committed status is a move of the order
\* PENDING -> EXTRACTING_FRAMES -> EXTRACTING_AUDIO -> (TRANSCRIBING, only
\* with audio) -> EMBEDDING -> COMPLETED, or a move from a non-terminal
\* status to FAILED; a COMPLETED or FAILED status is never changed (the row
\* can only be deleted), under every interleaving of the routes, the
\* pipeline steps, failures and a crash.
C1_StatusOrder == [][\A v \in VideoIds : StatusMoveOk(v)]_vars

\* A run with audio has gone through every status and committed COMPLETED.
C1_Witness ==
  \E v \in VideoIds :
    /\ videos[v].status = COMPLETED
    /\ task[v].has_audio
    /\ task[v].segments > 0

\* C2: in every committed Video row, error_message is set exactly when
\* status is FAILED and processed_at is set exactly when status is COMPLETED.
C2_ErrorIffFailed ==
  \A v \in VideoIds :
    HasRow(v) =>
      /\ (videos[v].error_message # NULL) <=> (videos[v].status = FAILED)
      /\ (videos[v].processed_at # NULL) <=> (videos[v].status = COMPLETED)

\* The commit of COMPLETED failed and the failure handler ran: its own
\* commit raised on the session the failed commit left behind, and the row
\* is as the last commit that went through left it.
C2_Witness ==
  \E v \in VideoIds :
    /\ task[v].pc = "raised"
    /\ task[v].at = "complete"
    /\ task[v].caught = CommitError
    /\ task[v].exc = PendingRollbackError
    /\ videos[v].status = EMBEDDING


Last(q) == q[Len(q)]

\* C3: when an external call of a run raised, the run has made no later call,
\* the Video is committed FAILED with error_message = str(error), and no
\* second run exists.
C3_ToolErrorCommitsFailed ==
  \A v \in VideoIds :
    (Ended(task[v]) /\ task[v].caught.msg \in ExternalCalls /\ HasRow(v)) =>
      /\ Last(task[v].calls) = task[v].caught.msg
      /\ videos[v].status = FAILED
      /\ videos[v].error_message = Str(task[v].caught)
      /\ runs[v] = 1

\* C4: process_video_task never lets an exception out: no run ends raised.
C4_NeverPropagates == \A v \in VideoIds : task[v].pc # "raised"

\* C5: once delete_video and the pipeline of the same video have both ended
\* and the Video row is gone, no vector point and no Transcript of that id
\* is left.
C5_NothingOutlivesVideo ==
  \A v \in VideoIds :
    (/\ call[v].code = 200
     /\ ~HasRow(v)
     /\ \A d \in DeletesOf(v) : del[d].pc = "done"
     /\ Ended(task[v])) =>
      /\ PointsOf(visual, v) = {}
      /\ PointsOf(speech, v) = {}
      /\ transcripts[v] = 0

\* C6: a delete_video request that found its Video COMPLETED has, from the
\* return of delete_video_embeddings on and so when it has succeeded, left
\* no point of that id in the visual or the speech collection.
C6_DeleteLeavesNoPoints ==
  \A d \in DeleteIds :
    (del[d].found = COMPLETED
     /\ (del[d].pc \in {"commit", "committed"} \/ del[d].result = 200)) =>
      /\ PointsOf(visual, del[d].video) = {}
      /\ PointsOf(speech, del[d].video) = {}

\* delete_video succeeded on a COMPLETED video whose run had upserted visual
\* points.
C6_Witness ==
  \E d \in DeleteIds :
    /\ del[d].result = 200
    /\ del[d].found = COMPLETED
    /\ task[del[d].video].embeddings # <<>>

\* C7: delete_video removes the Video's Transcripts together with the Video:
\* a request for a COMPLETED video, run with no failure of the vector index
\* or of the record store, ends with the row and its Transcript rows gone.
C7_DeleteRemovesTranscripts ==
  \A d \in DeleteIds :
    (del[d].found = COMPLETED /\ del[d].pc = "done" /\ faults = 0) =>
      /\ ~HasRow(del[d].video)
      /\ transcripts[del[d].video] = 0

\* C8: after delete_video succeeded on a COMPLETED video, its frames
\* directory, its audio file and its uploaded file are gone from the disk.
C8_DeleteRemovesArtifacts ==
  \A d \in DeleteIds :
    (del[d].found = COMPLETED /\ del[d].result = 200) =>
      LET v == del[d].video IN
      /\ FramesDir(v) \notin DOMAIN files
      /\ AudioPath(v) \notin DOMAIN files
      /\ call[v].route = "upload" =>
           \A f \in Filenames : UploadPath(f) \notin DOMAIN files

\* A request is between the commit of its row and add_task only while it
\* waits for session.refresh or to be resumed after it.
C9_Inv ==
  \A v \in VideoIds :
    /\ runs[v] <= 1
    /\ (call[v].code = 200) <=> (runs[v] = 1)
    /\ (HasRow(v) /\ call[v].pc \notin {"refresh", "refreshed"}) => runs[v] = 1
    /\ call[v].code = 200 => call[v].status = PENDING
    /\ (task[v].pc = "none") <=> (runs[v] = 0)

C9_Step ==
  \A v \in VideoIds :
    /\ runs'[v] # runs[v] =>
         /\ runs'[v] = runs[v] + 1
         /\ videos' = videos
         /\ call[v].pc = "refreshed"
         /\ call[v].status = PENDING
         /\ call'[v].code = 200
         /\ task'[v].pc = "lookup"
    /\ (call[v].pc = "refresh" /\ call'[v].pc = "refreshed") =>
         /\ videos[v].status = PENDING
         /\ videos' = videos
    /\ (~HasRow(v) /\ videos'[v] # NoRow) =>
         /\ videos'[v].status = PENDING
         /\ \A w \in VideoIds \ {v} : videos'[w] = videos[w]
         /\ call'[v].pc = "refresh"
         /\ runs'[v] = 0

\* C9: a successful add_video / upload_video commits one new PENDING row,
\* schedules one run for its id and reports PENDING; a run is scheduled by
\* nothing else, so a Video never has a second run and every Video row has
\* exactly one.
C9_ExactlyOneRun == []C9_Inv /\ [][C9_Step]_vars

\* The status committed last when a run is at pc.
StepStatus(t) ==
  CASE t.pc \in {"lookup", "init"} -> PENDING
    [] t.pc \in {"frames", "audio_mark"} -> EXTRACTING_FRAMES
    [] t.pc = "audio" -> EXTRACTING_AUDIO
    [] t.pc = "transcribe" -> TRANSCRIBING
    [] t.pc = "embed_mark" ->
         IF t.has_audio THEN TRANSCRIBING ELSE EXTRACTING_AUDIO
    [] t.pc \in {"embed_visual", "embed_speech", "complete"} -> EMBEDDING
    [] t.pc = "return" -> IF t.caught = NoExc THEN COMPLETED ELSE FAILED

C10_Inv ==
  \A v \in VideoIds :
    (HasRow(v) /\ Running(task[v]) /\ task[v].pc # "handler") =>
      videos[v].status = StepStatus(task[v])

C10_Dead ==
  \A v \in VideoIds :
    (HasRow(v) /\ task[v].dead /\ task[v].pc # "handler") =>
      videos[v].status = StepStatus(task[v])

C10_Step ==
  \A v \in VideoIds :
    task[v].dead =>
      /\ task'[v] = task[v]
      /\ videos'[v].status \in {videos[v].status, "norow"}

\* C10: the status of a step is committed before the step's external calls
\* start: while a run is in a step, and when the process died there, the
\* persisted status is that step's, and after the crash it stays there
\* (nothing resumes the run; the row can only be deleted).
C10_CrashLeavesStepStatus == [](C10_Inv /\ C10_Dead) /\ [][C10_Step]_vars

\* The process died during transcription.
C10_Witness ==
  \E v \in VideoIds :
    task[v].dead /\ task[v].pc = "transcribe" /\ videos[v].status = TRANSCRIBING


Range(q) == {q[i] : i \in DOMAIN q}

\* has_audio was called in the run of v and answered False.
NoAudio(v) == "has_audio" \in Range(task[v].calls) /\ ~task[v].has_audio

C11_Inv ==
  \A v \in VideoIds :
    NoAudio(v) =>
      /\ videos[v].status # TRANSCRIBING
      /\ transcripts[v] = 0
      /\ PointsOf(speech, v) = {}
      /\ Range(task[v].calls) \cap
           {"extract_audio", "transcribe", "embed_texts_batch",
            "store_speech_embeddings"} = {}
      /\ (task[v].pc = "done" /\ task[v].caught = NoExc /\ HasRow(v)) =>
           videos[v].status = COMPLETED

C11_Step ==
  \A v \in VideoIds :
    /\ (videos'[v].status = TRANSCRIBING /\ videos[v].status # TRANSCRIBING) =>
         task'[v].has_audio
    /\ NoAudio(v) => NoAudio(v)'

\* C11: when has_audio answered False the run never commits TRANSCRIBING,
\* inserts no Transcript, upserts no speech point and makes none of the audio
\* calls, and a run that ended without a failure left the Video COMPLETED.
C11_NoAudioPath == []C11_Inv /\ [][C11_Step]_vars

\* A video without audio, with keyframes, went through to COMPLETED.
C11_Witness ==
  \E v \in VideoIds :
    /\ NoAudio(v)
    /\ task[v].pc = "done"
    /\ task[v].keyframes > 0
    /\ videos[v].status = COMPLETED


Ids(points) == {p.id : p \in points}

\* C12: a call of store_visual_embeddings / store_speech_embeddings for a
\* video id that repeats the number of keyframes / segments of the call
\* before it (which stored at least one point) leaves the ids, and so the
\* number, of the video's points in both collections unchanged.
C12_StoreAgainSameCount ==
  [][\A v \in VideoIds :
       /\ (task[v].embeddings # <<>> /\ task'[v].keyframes = task[v].keyframes) =>
            Ids(PointsOf(visual', v)) = Ids(PointsOf(visual, v))
       /\ (task[v].segments > 0 /\ task'[v].segments = task[v].segments) =>
            Ids(PointsOf(speech', v)) = Ids(PointsOf(speech, v))]_vars


\* What a run of v that ended without a failure leaves, from the run's own
\* locals alone.
AloneOutcome(v) ==
  /\ videos[v].status = COMPLETED
  /\ videos[v].keyframe_count = task[v].keyframes
  /\ videos[v].frame_count \in {count_frames(out) : out \in FrameProbes}
  /\ transcripts[v] = task[v].segments
  /\ PointsOf(visual, v) =
       BuildPoints(v, task[v].keyframes, task[v].embeddings, "visual")
  /\ PointsOf(speech, v) =
       BuildPoints(v, task[v].segments, embed_texts_batch(task[v].segments),
                   "speech")

C13_Inv ==
  \A v \in VideoIds :
    /\ (task[v].pc = "done" /\ HasRow(v) /\ task[v].caught = NoExc) =>
         AloneOutcome(v)
    /\ (task[v].pc = "done" /\ HasRow(v) /\ task[v].caught # NoExc) =>
         /\ videos[v].status = FAILED
         /\ videos[v].error_message = Str(task[v].caught)
    /\ \A p \in visual \cup speech :
         p.video_id = v => \A q \in visual \cup speech :
                             q.video_id # v => q.id # p.id

C13_Step ==
  \A v \in VideoIds :
    (task[v].pc # "none" /\ task'[v] # task[v]) =>
      /\ \A w \in VideoIds \ {v} :
           /\ videos'[w] = videos[w]
           /\ transcripts'[w] = transcripts[w]
           /\ PointsOf(visual', w) = PointsOf(visual, w)
           /\ PointsOf(speech', w) = PointsOf(speech, w)
      /\ \A p \in (visual' \ visual) \cup (speech' \ speech) : p.video_id = v

\* C13: a step of the run of v changes no row, Transcript count or point of
\* another video and adds only points of v under ids no other video has;
\* the row, Transcripts and points a run leaves are those its own results
\* determine, whatever the other run did meanwhile.
C13_PipelinesIsolated == []C13_Inv /\ [][C13_Step]_vars

\* Both runs are in flight together, each with its visual points upserted.
C13_Witness ==
  /\ \A v \in VideoIds :
       /\ Running(task[v])
       /\ task[v].pc \in {"embed_speech", "complete"}
       /\ PointsOf(visual, v) # {}
  /\ PointsOf(speech, 1) # {}


\* The search has answered; it has made its vector queries and not failed.
Answered == search.pc = "done" /\ search.code = 200
Queried == search.pc \in {"enrich", "rows", "done"} /\ search.code # 500

\* The identity of a hit: its video, its time and its modality.
SameHit(r, c) ==
  r.video_id = c.video_id /\ r.timestamp = c.timestamp /\ r.result_type = c.type

C14_Inv ==
  Queried =>
    /\ \A c \in Range(search.visual_results) \cup Range(search.speech_results)
                \cup Range(search.results) :
         c.score >= search.query.threshold
    /\ \A r \in Range(search.response.results) :
         /\ r.score >= search.query.threshold
         /\ \E c \in Range(search.results) : SameHit(r, c) /\ r.score = c.score

C14_Step ==
  (search.pc = "idle" /\ search'.pc = "enrich") =>
    /\ \A c \in Range(search'.visual_results) :
         \E p \in visual :
           /\ p.video_id = c.video_id /\ p.timestamp = c.timestamp
           /\ c.score = Similarity(embed_text_visual(search'.query.query), p.vector)
    /\ \A c \in Range(search'.speech_results) :
         \E p \in speech :
           /\ p.video_id = c.video_id /\ p.timestamp = c.timestamp
           /\ c.score = Similarity(embed_text(search'.query.query), p.vector)

\* C14: every hit the vector queries return, every hit kept after the sort
\* and the cut, and every result of the response has a score >= the query's
\* threshold, and that score is the similarity of the query to the hit's
\* point, unchanged.
C14_ScoresReachThreshold == []C14_Inv /\ [][C14_Step]_vars

\* A search with the higher threshold answered with results while a point
\* below the threshold was in the index.
C14_Witness ==
  /\ Answered
  /\ search.query.threshold = 10
  /\ search.query.search_type = HYBRID
  /\ search.response.results # <<>>
  /\ \E p \in visual \cup speech :
       Similarity(search.query.query, p.vector) < search.query.threshold

NonIncreasing(q) ==
  \A i, j \in 1..Len(q) : i < j => q[i].score >= q[j].score

\* C15: the list after the cut and the list of the response hold at most
\* limit results, by non-increasing score, for every search type.
C15_AtMostLimitSorted ==
  Queried =>
    /\ Len(search.results) <= search.query.limit
    /\ NonIncreasing(search.results)
    /\ Len(search.response.results) <= search.query.limit
    /\ NonIncreasing(search.response.results)

\* A HYBRID answer of limit results that mixes the modalities, a speech hit
\* ranked above a visual hit of lower score, with more candidates than limit.
C15_Witness ==
  /\ Answered
  /\ search.query.search_type = HYBRID
  /\ Len(search.response.results) = search.query.limit
  /\ Len(search.visual_results) + Len(search.speech_results) > search.query.limit
  /\ \E i, j \in 1..Len(search.response.results) :
       /\ i < j
       /\ search.response.results[i].result_type = "speech"
       /\ search.response.results[j].result_type = "visual"
       /\ search.response.results[i].score > search.response.results[j].score

\* The positions of the list whose Video row the select returned.
WithRow(q) == {i \in 1..Len(q) : search.rows[q[i].video_id] # NoRow}

C16_SelectStep ==
  (search.pc = "enrich" /\ search'.pc = "rows") =>
    /\ search'.results = search.results
    /\ \A i \in 1..Len(search.results) :
         search'.rows[search.results[i].video_id]
           = videos[search.results[i].video_id]

C16_AnswerStep ==
  (search.pc = "rows" /\ search'.pc = "done") =>
    LET top == search.results
        out == search'.response.results
    IN /\ search'.response.total_results = Len(out)
       /\ Len(out) = Cardinality(WithRow(top))
       /\ \A i \in WithRow(top) :
            LET j == Cardinality({m \in WithRow(top) : m <= i}) IN
            /\ SameHit(out[j], top[i])
            /\ out[j].score = top[i].score
            /\ out[j].video_filename = search.rows[top[i].video_id].filename

\* C16: the select of search_videos returns the Video rows of the results
\* of the list after the cut as they are when it is served, and the
\* response is that list without the results whose row the select did not
\* return, in the same order, each with the filename of its row;
\* total_results is its length; nothing from below the cut is added.
C16_ResponseIsFilteredTop == [][C16_SelectStep /\ C16_AnswerStep]_vars

\* A result was dropped because its Video row was deleted meanwhile; the
\* others were returned, and a candidate below the cut was not added.
C16_Witness ==
  /\ Answered
  /\ search.response.results # <<>>
  /\ search.response.total_results < Len(search.results)
  /\ Len(search.visual_results) + Len(search.speech_results) > search.query.limit

QueryCall(collection) ==
  [collection |-> collection, limit |-> search.query.limit,
   score_threshold |-> search.query.threshold]

\* C17: a VISUAL search queries the visual collection only and returns
\* visual results only, a SPEECH search the speech collection and speech
\* results only, a HYBRID search both collections, each with the limit and
\* the threshold of the query.
C17_TypeSelectsCollections ==
  Queried =>
    /\ search.query.search_type = VISUAL =>
         /\ search.calls = <<QueryCall(VISUAL_COLLECTION)>>
         /\ \A r \in Range(search.response.results) : r.result_type = "visual"
         /\ \A c \in Range(search.results) : c.type = "visual"
    /\ search.query.search_type = SPEECH =>
         /\ search.calls = <<QueryCall(SPEECH_COLLECTION)>>
         /\ \A r \in Range(search.response.results) : r.result_type = "speech"
         /\ \A c \in Range(search.results) : c.type = "speech"
    /\ search.query.search_type = HYBRID =>
         search.calls = <<QueryCall(VISUAL_COLLECTION), QueryCall(SPEECH_COLLECTION)>>

\* A SPEECH search answered with results while the visual collection held a
\* point that reaches the threshold.
C17_Witness ==
  /\ Answered
  /\ search.query.search_type = SPEECH
  /\ search.response.results # <<>>
  /\ Eligible(visual, embed_text_visual(search.query.query),
              search.query.threshold) # {}

Candidates == search.visual_results \o search.speech_results

\* C18: nothing is removed for sharing video and time with another hit: the
\* list after the cut has min(limit, number of candidates) entries, and a
\* visual and a speech hit of the same video and time are both in it
\* whenever at most limit candidates score as high as the lower of the two;
\* the response then returns both or (row missing) neither.
C18_NoDeduplication ==
  Queried =>
    /\ Len(search.results) = Min(search.query.limit, Len(Candidates))
    /\ \A a \in Range(search.visual_results), b \in Range(search.speech_results) :
         (/\ a.video_id = b.video_id
          /\ a.timestamp = b.timestamp
          /\ Cardinality({i \in 1..Len(Candidates) :
                            Candidates[i].score >= Min(a.score, b.score)})
               <= search.query.limit) =>
           /\ a \in Range(search.results)
           /\ b \in Range(search.results)
           /\ ((\E r \in Range(search.response.results) : SameHit(r, a))
               <=> (\E r \in Range(search.response.results) : SameHit(r, b)))

\* The response returns a visual hit and a speech hit of the same moment.
C18_Witness ==
  /\ Answered
  /\ \E i, j \in 1..Len(search.response.results) :
       /\ search.response.results[i].result_type = "visual"
       /\ search.response.results[j].result_type = "speech"
       /\ search.response.results[i].video_id = search.response.results[j].video_id
       /\ search.response.results[i].timestamp = search.response.results[j].timestamp

\* C19: every score of the response is the rescaled score of its hit:
\* rescale_siglip_score applied to the similarity the vector query returned.
C19_ScoresRescaled ==
  Answered =>
    \A r \in Range(search.response.results) :
      \E c \in Range(search.results) :
        SameHit(r, c) /\ r.score = rescale_siglip_score(c.score).value

\* C20: rescale_siglip_score returns, for every argument, a value in [0,1]
\* without raising, 0.5 at the midpoint 0.18, and never less than for a
\* smaller argument.
C20_RescaleTotalMonotone ==
  calib.called =>
    /\ calib.result.exc = NoExc
    /\ calib.result.value \in 0..100
    /\ calib.arg = 18 => calib.result.value = 50
    /\ \A b \in CosineScores :
         (b < calib.arg /\ rescale_siglip_score(b).exc = NoExc) =>
           rescale_siglip_score(b).value <= calib.result.value

\* The metadata probe of request id failed: the route ended with the error
\* get_video_info raised, wrapped in an HTTPException when it was caught.
ProbeFailed(id) ==
  call[id].exc \in {HTTPException("Failed to get video info"),
                    Exc("ValueError", "ffprobe output")}

\* C21: an upload_video request whose metadata probe failed, with whatever
\* error, was rejected, created no Video row, scheduled no run and left no
\* file of the upload in the upload directory.
C21_UploadProbeFailureCleansUp ==
  \A id \in VideoIds :
    (call[id].route = "upload" /\ ProbeFailed(id)) =>
      /\ call[id].code # 200
      /\ ~HasRow(id)
      /\ runs[id] = 0
      /\ task[id].pc = "none"
      /\ \A f \in Filenames : UploadPath(f) \notin DOMAIN files

\* The file at path is a video the probe can read.
Readable(fs, path) == path \in DOMAIN fs /\ fs[path] = "good"

C22_Inv ==
  \A id \in VideoIds :
    (/\ call[id].route = "add"
     /\ (call[id].exc = HTTPException("Video file not found") \/ ProbeFailed(id))) =>
      /\ call[id].code \in {400, 500}
      /\ ~HasRow(id)
      /\ runs[id] = 0
      /\ task[id].pc = "none"

C22_Step ==
  \A id \in VideoIds :
    /\ (call[id] = NoCall /\ call'[id].route = "add") =>
         /\ videos'[id] # NoRow =>
              /\ Readable(files, videos'[id].original_path)
              /\ call'[id].pc = "refresh"
         /\ files' = files
         /\ call'[id].pc = "done" =>
              /\ call'[id].code \in {400, 500}
              /\ videos'[id] = NoRow
         /\ runs'[id] = 0
         /\ task'[id].pc = "none"
    /\ (call[id].route = "add" /\ runs'[id] # runs[id]) =>
         call[id].pc = "refreshed"
    /\ (call[id].route = "add" /\ call'[id].pc = "refreshed"
          /\ call[id].pc # "refreshed") =>
         /\ HasRow(id)
         /\ call[id].pc = "refresh"

\* C22: an add_video request for a path that does not exist or whose
\* metadata probe fails is answered with an error in the same step, with no
\* Video row and no run: a row and a run are created only for a path that
\* exists and that the probe can read.
C22_AddRejectedImmediately == []C22_Inv /\ [][C22_Step]_vars

\* One add_video was rejected for a missing path, another for a failed probe.
C22_Witness ==
  \E a, b \in VideoIds :
    /\ call[a].route = "add"
    /\ call[a].exc = HTTPException("Video file not found")
    /\ call[b].route = "add"
    /\ ProbeFailed(b)
    /\ ~HasRow(a) /\ ~HasRow(b)

\* extract_audio or transcribe raised in the run of v, which had extracted
\* keyframes.
AudioStepFailed(v) ==
  task[v].caught.msg \in {"extract_audio", "transcribe"} /\ task[v].keyframes > 0

\* C23: a run in which audio extraction or transcription failed after
\* keyframes were extracted has ended FAILED, never committed EMBEDDING,
\* called no embedder and no upsert, and left no point of the video in the
\* visual or the speech collection.
C23_AudioFailureStoresNothing ==
  \A v \in VideoIds :
    (AudioStepFailed(v) /\ Ended(task[v]) /\ HasRow(v)) =>
      /\ videos[v].status = FAILED
      /\ Range(task[v].calls) \cap
           {"embed_images_batch", "store_visual_embeddings",
            "embed_texts_batch", "store_speech_embeddings"} = {}
      /\ PointsOf(visual, v) = {}
      /\ PointsOf(speech, v) = {}

C24_Inv ==
  \A v \in VideoIds :
    ~HasRow(v) => PointsOf(visual, v) = {} /\ PointsOf(speech, v) = {}

C24_Step ==
  \A v \in VideoIds :
    /\ (HasRow(v) /\ videos'[v] = NoRow) =>
         /\ \E d \in DeletesOf(v) :
              /\ del[d].pc = "commit"
              /\ del'[d].pc = "committed"
              /\ del'[d].exc = NoExc
         /\ PointsOf(visual, v) = {}
         /\ PointsOf(speech, v) = {}
    /\ \A d \in DeletesOf(v) :
         /\ (del[d].pc = "selected" /\ del'[d].result = 500) =>
              /\ videos' = videos
              /\ del'[d].pc = "done"
         /\ (del[d].result # 200 /\ del'[d].result = 200) =>
              /\ del[d].pc = "committed"
              /\ ~HasRow(v)
              /\ videos' = videos

\* C24: with no run in flight, delete_video deletes the points of the video
\* before its row: in no state, also after a crash or a failure inside the
\* vector delete or a crash between the commit and the answer, is the row
\* gone while a point of the id is left; the row is removed only by the
\* commit of a request whose vector delete returned, served when both
\* collections hold no point of the id; a request whose vector delete
\* raised ends with the row unchanged, and a request is answered 200 only
\* once its commit is served and the row is gone.
C24_PointsBeforeRow == []C24_Inv /\ [][C24_Step]_vars

\* The process died while one request was inside the vector delete of its
\* video, leaving the speech points and the row, and while the other
\* request, for a video that had points, waited to be resumed after its
\* commit: that row is gone and the request was never answered.
C24_Witness ==
  \E v, w \in VideoIds, d, e \in DeleteIds :
    /\ crashes = 1
    /\ d # e
    /\ del[d].video = v /\ del[d].pc = "dead"
    /\ del[e].video = w /\ del[e].pc = "dead" /\ del[e].result = 0
    /\ HasRow(v)
    /\ task[v].keyframes > 0
    /\ PointsOf(visual, v) = {}
    /\ PointsOf(speech, v) # {}
    /\ ~HasRow(w)
    /\ task[w].keyframes > 0

\* C25: a COMPLETED Video with keyframe_count = n > 0 (whose embedder
\* loaded at least one frame image, no delete_video request made) has
\* exactly n visual points, and for every i in 0..n-1 the point with id
\* (video_id, i, visual) carries the payload of keyframe i and the vector of
\* keyframe i's own frame image (frame i + 1 of 1..n), whether or not every
\* frame image could be loaded.
C25_VisualPointsMatchKeyframes ==
  \A v \in VideoIds :
    (/\ videos[v].status = COMPLETED
     /\ videos[v].keyframe_count > 0
     /\ task[v].embeddings # <<>>
     /\ ndeletes = 0) =>
      LET n == videos[v].keyframe_count IN
      /\ Cardinality(PointsOf(visual, v)) = n
      /\ \A i \in 0..(n - 1) :
           \E p \in PointsOf(visual, v) :
             /\ p.id = generate_point_id(v, i, "visual")
             /\ p.index = i
             /\ p.timestamp = i
             /\ p.vector = i + 1

C26_Inv ==
  \A v \in VideoIds : transcripts[v] \in {0, task[v].segments}

C26_Step ==
  \A v \in VideoIds :
    transcripts'[v] # transcripts[v] =>
      /\ transcripts[v] = 0
      /\ transcripts'[v] = task'[v].segments
      /\ task[v].pc = "transcribe"
      /\ task[v].awaiting
      /\ videos[v].status = TRANSCRIBING
      /\ videos'[v].status = TRANSCRIBING

\* C26: the Transcript rows of a run are inserted by one commit, made while
\* the committed status is TRANSCRIBING, that takes the count from 0 to the
\* number of segments transcribe returned; in every state, so also after the
\* run ended COMPLETED or FAILED or died, the video has either no Transcript
\* row or one per segment, never some of them.
C26_TranscriptsAtomic == []C26_Inv /\ [][C26_Step]_vars

\* The commit of two segments' Transcripts failed: the run ended, its
\* handler's commit refused, with no Transcript row.
C26_Witness ==
  \E v \in VideoIds :
    /\ task[v].pc = "raised"
    /\ task[v].at = "transcribe"
    /\ task[v].caught = CommitError
    /\ task[v].segments = 2
    /\ transcripts[v] = 0
    /\ videos[v].status = TRANSCRIBING

\* C27: every scheduled run whose Video row exists leads to a committed
\* status COMPLETED or FAILED, and a run that has ended has left a terminal
\* committed status.
C27_RunsEndTerminal ==
  /\ [](\A v \in VideoIds :
          (Ended(task[v]) /\ HasRow(v)) => videos[v].status \in Terminal)
  /\ \A v \in VideoIds :
       (runs[v] = 1 /\ HasRow(v)) ~> (videos[v].status \in Terminal)

\* The positions of the calls of fn in the call log of the run of v.
CallsOf(v, fn) == {i \in 1..Len(task[v].calls) : task[v].calls[i] = fn}

Upserts == {"store_visual_embeddings", "store_speech_embeddings"}

BeforeEmbedding == {PENDING, EXTRACTING_FRAMES, EXTRACTING_AUDIO, TRANSCRIBING}

C28_Inv ==
  \A v \in VideoIds :
    /\ videos[v].status \in BeforeEmbedding =>
         /\ PointsOf(visual, v) = {}
         /\ PointsOf(speech, v) = {}
         /\ Range(task[v].calls) \cap Upserts = {}
    /\ \A i \in CallsOf(v, "store_visual_embeddings"),
          j \in CallsOf(v, "store_speech_embeddings") : i < j
    /\ videos[v].status = COMPLETED =>
         /\ task[v].keyframes > 0 => CallsOf(v, "store_visual_embeddings") # {}
         /\ task[v].segments > 0 => CallsOf(v, "store_speech_embeddings") # {}
         /\ task[v].pc \in {"return", "done"}

C28_Step ==
  \A v \in VideoIds :
    /\ (\/ PointsOf(visual', v) # PointsOf(visual, v)
        \/ PointsOf(speech', v) # PointsOf(speech, v)
        \/ Range(task'[v].calls) \cap Upserts # Range(task[v].calls) \cap Upserts) =>
         /\ videos[v].status = EMBEDDING
         /\ videos'[v].status = EMBEDDING
    /\ PointsOf(speech', v) # PointsOf(speech, v) =>
         /\ task[v].pc = "embed_speech"
         /\ task[v].keyframes > 0 => CallsOf(v, "store_visual_embeddings") # {}
    /\ (videos[v].status # COMPLETED /\ videos'[v].status = COMPLETED) =>
         /\ videos[v].status = EMBEDDING
         /\ task[v].pc = "complete"
         /\ PointsOf(visual', v) = PointsOf(visual, v)
         /\ PointsOf(speech', v) = PointsOf(speech, v)

\* C28: while the committed status of a video is PENDING, EXTRACTING_FRAMES,
\* EXTRACTING_AUDIO or TRANSCRIBING no point of it exists and no upsert was
\* called; an upsert is called, and points change, only in steps that start
\* and end with EMBEDDING committed; the visual upsert precedes the speech
\* upsert; COMPLETED is committed from EMBEDDING, in a later step than the
\* upserts, after the upserts the run had to make have returned.
C28_UpsertsWithinEmbedding == []C28_Inv /\ [][C28_Step]_vars

\* A run with keyframes and segments made both upserts and committed
\* COMPLETED.
C28_Witness ==
  \E v \in VideoIds :
    /\ videos[v].status = COMPLETED
    /\ PointsOf(visual, v) # {}
    /\ PointsOf(speech, v) # {}
    /\ task[v].calls[Len(task[v].calls)] = "store_speech_embeddings"

\* The scores a hit can have.
Scores == {Similarity(x, y) : x \in QueryTexts, y \in Vectors}

\* How many entries of the list have score x.
CountScore(q, x) == Cardinality({i \in 1..Len(q) : q[i].score = x})

\* How many points of both collections reach threshold and satisfy Test on
\* their score against the query text.
CountPoints(text, threshold, Test(_)) ==
  Cardinality({p \in Eligible(visual, embed_text_visual(text), threshold) :
                 Test(Similarity(embed_text_visual(text), p.vector))})
  + Cardinality({p \in Eligible(speech, embed_text(text), threshold) :
                   Test(Similarity(embed_text(text), p.vector))})

\* C29: a HYBRID search leaves, after the merge of the two per-collection
\* answers and the cut to limit, a list whose scores are, as a multiset,
\* those of the limit best of all points of both collections that reach the
\* threshold: score x occurs min(N(x), max(0, limit - A(x))) times, N(x) the
\* number of such points with score x and A(x) the number with a higher one.
C29_HybridIsGlobalTop ==
  [][(search.pc = "idle" /\ search'.pc = "enrich"
        /\ search'.query.search_type = HYBRID) =>
       LET q == search'.query IN
       \A x \in Scores :
         LET Same(y) == y = x
             Higher(y) == y > x
             n == CountPoints(q.query, q.threshold, Same)
             a == CountPoints(q.query, q.threshold, Higher)
         IN CountScore(search'.results, x) = Min(n, Max(0, q.limit - a))]_vars

\* A HYBRID search with limit 1 over a visual collection with two points
\* that reach the threshold, of which the visual query returns one, and a
\* speech collection with a point scoring higher: the speech hit is the
\* result.
C29_Witness ==
  /\ Queried
  /\ search.query.search_type = HYBRID
  /\ search.query.limit = 1
  /\ Len(search.visual_results) = 1
  /\ Len(search.speech_results) = 1
  /\ search.speech_results[1].score > search.visual_results[1].score
  /\ search.results = search.speech_results
  /\ Cardinality(Eligible(visual, embed_text_visual(search.query.query),
                          search.query.threshold)) = 2

C30_Inv ==
  \A v \in VideoIds :
    (videos[v].status = FAILED /\ task[v].at \in {"embed_speech", "complete"}) =>
      /\ transcripts[v] = task[v].segments
      /\ PointsOf(visual, v) =
           BuildPoints(v, task[v].keyframes, task[v].embeddings, "visual")

C30_Step ==
  \A v \in VideoIds :
    (task[v].pc = "handler" \/ videos[v].status = FAILED) =>
      /\ transcripts'[v] = transcripts[v]
      /\ PointsOf(visual', v) = PointsOf(visual, v)
      /\ PointsOf(speech', v) = PointsOf(speech, v)
      /\ files' = files

\* C30: the except clause of a run changes no Transcript row, no point and
\* no file, and nothing does once the Video is FAILED: a Video marked FAILED
\* after its speech embedding or its last commit failed still has the
\* Transcript rows of its segments and the visual points its run upserted.
C30_NoCompensation == []C30_Inv /\ [][C30_Step]_vars

\* The speech embedding failed after the Transcripts were committed and the
\* visual points upserted: the FAILED video owns both.
C30_Witness ==
  \E v \in VideoIds :
    /\ videos[v].status = FAILED
    /\ task[v].at = "embed_speech"
    /\ transcripts[v] > 0
    /\ PointsOf(visual, v) # {}
    /\ PointsOf(speech, v) = {}

C31_QueryStep ==
  (search.pc = "idle" /\ search'.pc = "enrich") =>
    LET q == search'.query
        ev == Eligible(visual, embed_text_visual(q.query), q.threshold)
        es == Eligible(speech, embed_text(q.query), q.threshold)
    IN /\ (UsesVisual(q.search_type) /\ Cardinality(ev) <= q.limit) =>
            \A p \in ev : \E c \in Range(search'.visual_results) :
              c.video_id = p.video_id /\ c.timestamp = p.timestamp
       /\ (UsesSpeech(q.search_type) /\ Cardinality(es) <= q.limit) =>
            \A p \in es : \E c \in Range(search'.speech_results) :
              c.video_id = p.video_id /\ c.timestamp = p.timestamp

C31_EnrichStep ==
  /\ (search.pc = "enrich" /\ search'.pc = "rows") =>
       \A c \in Range(search.results) :
         HasRow(c.video_id) => search'.rows[c.video_id] = videos[c.video_id]
  /\ (search.pc = "rows" /\ search'.pc = "done") =>
       \A c \in Range(search.results) :
         search.rows[c.video_id] # NoRow =>
           \E r \in Range(search'.response.results) :
             SameHit(r, c) /\ r.score = c.score

\* C31: search reads no Video status: a vector query returns every point
\* that reaches the threshold when the limit leaves room for all of them,
\* whatever the status of the point's Video, the select returns the row of
\* every hit of the cut list that has one, and the response keeps every hit
\* whose row the select returned, whatever its status; so the points of a
\* video are returned from the moment they are upserted.
C31_SearchIgnoresStatus == [][C31_QueryStep /\ C31_EnrichStep]_vars

\* One response returns a visual hit of a video that is still EMBEDDING and
\* a visual hit of a video that has ended FAILED.
C31_Witness ==
  /\ Answered
  /\ \E v, w \in VideoIds :
       /\ videos[v].status = EMBEDDING
       /\ videos[w].status = FAILED
       /\ \E i, j \in 1..Len(search.response.results) :
            /\ search.response.results[i].video_id = v
            /\ search.response.results[j].video_id = w

C32_Inv ==
  \A v \in VideoIds :
    HasRow(v) => Readable(files, videos[v].original_path)

C32_Step ==
  \A v \in VideoIds :
    HasRow(v) =>
      /\ videos[v].original_path \in DOMAIN files'
      /\ files'[videos[v].original_path] = files[videos[v].original_path]

\* C32: the file at the original_path of a registered Video stays on disk
\* with the content it was registered with: no later request, in particular
\* no upload_video with the same filename, accepted or rejected, overwrites
\* or removes it.
C32_UploadKeepsEarlierFile == []C32_Inv /\ [][C32_Step]_vars

\* The run of v takes a step.
Steps(v) == task'[v] # task[v] /\ ~task'[v].dead

StoresUnchanged ==
  /\ videos' = videos
  /\ transcripts' = transcripts
  /\ visual' = visual
  /\ speech' = speech
  /\ files' = files

C33_Inv ==
  \A v \in VideoIds :
    (Ended(task[v]) /\ ~task[v].bound) => task[v].calls = <<>>

C33_Step ==
  \A v \in VideoIds :
    /\ (task[v].pc = "lookup" /\ ~HasRow(v) /\ Steps(v)) =>
         /\ StoresUnchanged
         /\ task'[v].calls = <<>>
         /\ ~task'[v].bound
         /\ task'[v].pc \in {"done", "handler"}
         /\ faults' = faults => task'[v].pc = "done"
    /\ (~task[v].bound /\ task[v].pc \in {"handler", "done", "raised"}) =>
         /\ task'[v].calls = <<>>
         /\ ~task'[v].bound
         /\ Steps(v) => StoresUnchanged

\* C33: a run that starts when its Video row is gone ends at the lookup: it
\* returns (or, when the lookup itself raises, leaves through the except
\* clause) without binding a Video, without changing the record store, the
\* vector index or the disk, and without calling any provider.
C33_MissingRowReturns == []C33_Inv /\ [][C33_Step]_vars

\* delete_video removed the row before the run started; the run returned at
\* the lookup.
C33_Witness ==
  \E v \in VideoIds :
    /\ call[v].code = 200
    /\ \E d \in DeletesOf(v) : del[d].result = 200
    /\ ~HasRow(v)
    /\ task[v].pc = "done"
    /\ ~task[v].bound
    /\ task[v].calls = <<>>

C34_Step ==
  \A d \in DeleteIds :
    /\ (del[d].pc = "idle" /\ del'[d].pc = "selected") =>
         /\ (del'[d].found = NULL) <=> ~HasRow(del'[d].video)
         /\ StoresUnchanged
         /\ task' = task
    /\ (del[d].pc = "selected" /\ del[d].found = NULL /\ del'[d].pc # "dead"
          /\ del'[d] # del[d]) =>
         /\ del'[d] = [del[d] EXCEPT !.pc = "done", !.result = 404]
         /\ StoresUnchanged
         /\ task' = task
    /\ (del[d].result # 404 /\ del'[d].result = 404) =>
         /\ del[d].found = NULL
         /\ ~HasRow(del[d].video)

\* C34: a delete_video request whose select finds no Video row of the id is
\* answered 404 in its next step and changes no table, no collection, no
\* file and no run; 404 is answered only when the row is absent.
C34_DeleteMissingIs404 == [][C34_Step]_vars

\* After the row of a video was deleted, a second delete_video for its id
\* was answered 404 while the index held points of the other video.
C34_Witness ==
  \E d \in DeleteIds :
    /\ del[d].result = 404
    /\ ~HasRow(del[d].video)
    /\ ndeletes = 2
    /\ visual \cup speech # {}

\* The triples generate_point_id is compared on: every video id, the indexes
\* of one and of two digits, the two modalities and the default prefix.
C35_Triples ==
  VideoIds \X (0..(10 * MaxItems + 1)) \X {"", "visual", "speech"}

C35_Injective ==
  \A t, u \in C35_Triples :
    /\ (PointName(t[1], t[2], t[3]) = PointName(u[1], u[2], u[3])) <=> (t = u)
    /\ (generate_point_id(t[1], t[2], t[3]) = generate_point_id(u[1], u[2], u[3]))
         <=> (t = u)

\* C35: generate_point_id is a function of (video_id, index, modality) that
\* gives distinct name strings, and so distinct ids, to distinct triples:
\* every stored point carries the id of its own triple, a visual and a speech
\* point never share an id, points of different videos never share an id,
\* and two points of one collection with the same id are the same video and
\* index.
C35_PointIdsDistinct ==
  /\ C35_Injective
  /\ \A p \in visual : p.id = generate_point_id(p.video_id, p.index, "visual")
  /\ \A p \in speech : p.id = generate_point_id(p.video_id, p.index, "speech")
  /\ \A p \in visual, q \in speech : p.id # q.id
  /\ \A p, q \in visual \cup speech :
       /\ p.video_id # q.video_id => p.id # q.id
       /\ p.index # q.index => p.id # q.id

C35_Witness ==
  \E p \in visual, q \in speech, r \in visual :
    /\ p.video_id = q.video_id /\ p.index = q.index
    /\ r.video_id # p.video_id /\ r.index = p.index

\* The probe of has_audio failed in the run of v.
ProbeError(v) == task[v].probe = "error"

\* C36: a failed audio probe is "no audio", never a failure of the run:
\* has_audio answers False, the run neither extracts audio nor transcribes,
\* it adds no Transcript row and no speech point, and the step of the probe
\* takes the run to the embedding step without raising.
C36_Inv ==
  \A v \in VideoIds :
    ProbeError(v) =>
      /\ ~task[v].has_audio
      /\ task[v].segments = 0
      /\ "extract_audio" \notin Range(task[v].calls)
      /\ "transcribe" \notin Range(task[v].calls)
      /\ task[v].at # "has_audio"
      /\ transcripts[v] = 0
      /\ PointsOf(speech, v) = {}

C36_Step ==
  \A v \in VideoIds :
    /\ (ProbeError(v)' /\ ~ProbeError(v)) =>
         /\ task'[v].pc = "embed_mark"
         /\ task'[v].caught = NoExc
         /\ StoresUnchanged
    /\ ProbeError(v) =>
         /\ ProbeError(v)'
         /\ transcripts'[v] = transcripts[v]
         /\ PointsOf(speech', v) = PointsOf(speech, v)
         /\ (HasRow(v) /\ HasRow(v)') =>
              videos'[v].status \notin {TRANSCRIBING} \ {videos[v].status}

C36_ProbeFailureIsNoAudio == []C36_Inv /\ [][C36_Step]_vars

C36_Witness ==
  \E v \in VideoIds :
    /\ ProbeError(v)
    /\ HasRow(v) /\ videos[v].status = COMPLETED
    /\ task[v].pc = "done"
    /\ transcripts[v] = 0
    /\ PointsOf(speech, v) = {}
    /\ PointsOf(visual, v) # {}

====
